---------------------------- MODULE Spec2Model ----------------------------
(***************************************************************************)
(* State-machine model of agent_sched_sim (anushkarde/cascade):            *)
(*   - the Workflow DAG and node state machine   (src/src/sim/workflow.cpp)*)
(*   - the provider Tier queue / concurrency cap (src/src/sim/provider.cpp)*)
(*   - the Scheduler dispatch pass               (src/src/sim/worker.h)    *)
(*   - the tier / local worker loops             (src/src/sim/worker.cpp)  *)
(*   - the Controller loops                      (src/unnamed/part_001)    *)
(* Three specifications share the variables:                               *)
(*   SpecWF   one Workflow driven through its public operations,           *)
(*   SpecTier one Tier used by concurrent threads,                         *)
(*   Spec     a whole Controller run.                                      *)
(***************************************************************************)
EXTENDS Integers, Sequences, FiniteSets, TLC

VARIABLES
  wfs,        \* workflows_ : workflow id -> Workflow object
  op,         \* SpecWF: the last public Workflow operation and whether it threw
  cfg,        \* ControllerConfig / SchedulerConfig of the run
  tiers,      \* provider tier -> [queue, in_flight]
  tworkers,   \* per tier, the attempts its worker threads hold
  cpu_queue,  \* LocalQueue of cpu tasks
  io_queue,   \* LocalQueue of io tasks
  result_queue, \* ResultQueue
  flags,      \* every std::atomic<bool> allocated as a cancellation flag
  ctl,        \* controller maps and counters
  tthreads    \* SpecTier: position of each thread using the tier

vars == <<wfs, op, cfg, tiers, tworkers, cpu_queue, io_queue,
          result_queue, flags, ctl, tthreads>>

-----------------------------------------------------------------------------
(* Bounds of the model.                                                    *)

MaxPdfs == 2          \* SpecWF: pdfs ranges over 1..MaxPdfs
MaxSubq == 1          \* SpecWF: subqueries_per_iter ranges over 0..MaxSubq
MaxIters == 2         \* SpecWF: max_iters ranges over 1..MaxIters
MaxSeed == 1          \* seeds range over 1..MaxSeed
MaxWfId == 2          \* workflow ids range over 1..MaxWfId

-----------------------------------------------------------------------------
(* 64-bit unsigned arithmetic, as eight 8-bit limbs (least significant     *)
(* first), for Mix64.                                                      *)

Pow2(k) == 2 ^ k

\* limb j (0..7) of the 64-bit value a
Limb(a, j) == a[j + 1]

\* bit i (0..63) of the 64-bit value a; 0 beyond bit 63
BitOf(a, i) == IF i \in 0..63 THEN (Limb(a, i \div 8) \div Pow2(i % 8)) % 2 ELSE 0

\* the 64-bit value whose bit i is b(i)
FromBits(b(_)) ==
  LET byte(j) == b(8*j) + 2*b(8*j+1) + 4*b(8*j+2) + 8*b(8*j+3) +
                 16*b(8*j+4) + 32*b(8*j+5) + 64*b(8*j+6) + 128*b(8*j+7)
  IN <<byte(0), byte(1), byte(2), byte(3), byte(4), byte(5), byte(6), byte(7)>>

\* a value below 2^31 as a 64-bit value
U64(n) == <<n % 256, (n \div 256) % 256, (n \div 65536) % 256,
            (n \div 16777216) % 256, 0, 0, 0, 0>>

\* a 64-bit literal given as four 16-bit words, most significant first
U64Lit(w3, w2, w1, w0) ==
  <<w0 % 256, w0 \div 256, w1 % 256, w1 \div 256,
    w2 % 256, w2 \div 256, w3 % 256, w3 \div 256>>

Xor64(a, b) ==
  LET x(i) == (BitOf(a, i) + BitOf(b, i)) % 2 IN FromBits(x)

Shr64(a, k) ==
  LET x(i) == BitOf(a, i + k) IN FromBits(x)

Shl64(a, k) ==
  LET x(i) == IF i >= k THEN BitOf(a, i - k) ELSE 0 IN FromBits(x)

\* a * b mod 2^64
Mul64(a, b) ==
  LET col(k) ==
        LET t[i \in -1..7] ==
              IF i < 0 \/ i > k THEN 0 ELSE t[i-1] + Limb(a, i) * Limb(b, k-i)
        IN t[k]
      c0 == col(0)
      c1 == col(1) + (c0 \div 256)
      c2 == col(2) + (c1 \div 256)
      c3 == col(3) + (c2 \div 256)
      c4 == col(4) + (c3 \div 256)
      c5 == col(5) + (c4 \div 256)
      c6 == col(6) + (c5 \div 256)
      c7 == col(7) + (c6 \div 256)
  IN <<c0 % 256, c1 % 256, c2 % 256, c3 % 256, c4 % 256, c5 % 256, c6 % 256, c7 % 256>>

\* static std::uint64_t Mix64(std::uint64_t x)
Mix64(x) ==
  LET a == Xor64(x, Shr64(x, 30))
      b == Mul64(a, U64Lit(48984, 18285, 7396, 58809))   \* 0xbf58476d1ce4e5b9
      c == Xor64(b, Shr64(b, 27))
      d == Mul64(c, U64Lit(38096, 18875, 4913, 4587))    \* 0x94d049bb133111eb
  IN Xor64(d, Shr64(d, 31))

\* h % 4 and h & 0xFFFF of a 64-bit value
Low2(h) == Limb(h, 0) % 4
Low16(h) == Limb(h, 0) + 256 * Limb(h, 1)

\* ex.evidence_count_est, ExpandIterationFromPlan
EvidenceHash(seed, id, iter, p, q) ==
  Low2(Mix64(Xor64(Xor64(Xor64(Xor64(U64(seed), Shl64(U64(id), 32)),
                               Mul64(U64(iter), U64Lit(40503, 31161, 32586, 31765))),
                         Shl64(U64(p), 8)),
                   U64(q))))

\* the tie-breaker h & 0xFFFF of ComputeDecideAction
TieHash(seed, id, iter) ==
  Low16(Mix64(Xor64(Xor64(U64(seed), Shl64(U64(id), 1)),
                    Mul64(U64(iter), U64Lit(53685, 18994, 53650, 60675)))))

\* The hashes of every workload of the model, computed once.
EvidenceTable ==
  [s \in 1..MaxSeed, w \in 1..MaxWfId, i \in 0..(MaxIters-1),
   p \in 0..(MaxPdfs-1), q \in 0..MaxSubq |-> EvidenceHash(s, w, i, p, q)]

TieTable ==
  [s \in 1..MaxSeed, w \in 1..MaxWfId, i \in 0..(MaxIters-1) |-> TieHash(s, w, i)]

-----------------------------------------------------------------------------
(* Workflow: types.h, workflow.h, workflow.cpp                             *)

NodeTypes == {"Plan", "LoadPDF", "Chunk", "Embed", "SimilaritySearch",
              "ExtractEvidence", "Aggregate", "DecideNext"}

NodeStates == {"WaitingDeps", "Runnable", "Queued", "Running",
               "Succeeded", "Failed", "Cancelled"}

IsTerminal(s) == s \in {"Succeeded", "Failed", "Cancelled"}

IsActive(s) == s \in {"Runnable", "Queued", "Running"}

NoStop == -1      \* std::optional<int> stop_iter_ holding no value

ResourceForType(t) ==
  CASE t = "LoadPDF" -> "io"
    [] t = "Chunk" -> "cpu"
    [] t = "Embed" -> "embed"
    [] t = "SimilaritySearch" -> "cpu"
    [] t = "ExtractEvidence" -> "llm"
    [] t = "Plan" -> "llm"
    [] t = "Aggregate" -> "cpu"
    [] t = "DecideNext" -> "llm"

Max(a, b) == IF a >= b THEN a ELSE b
Min(a, b) == IF a <= b THEN a ELSE b

\* A default-constructed Node with the fields the generator assigns; its id is
\* its position in the node sequence (NewNodeId counts from 1).
MkNode(t, iter, p, q, ev) ==
  [type |-> t, resource_class |-> ResourceForType(t), state |-> "WaitingDeps",
   iter |-> iter, pdf_idx |-> p, subquery_idx |-> q,
   deps |-> {}, children |-> {}, evidence_count_est |-> ev]

\* Workflow::AddNode with a fresh id
AddNode(nodes, n) == Append(nodes, n)

\* AddEdge with the two ends exchanged
AddEdge_Reversed(nodes, from, to) ==
  [i \in DOMAIN nodes |->
     [nodes[i] EXCEPT
        !.children = IF i = to THEN @ \cup {from} ELSE @,
        !.deps = IF i = from THEN @ \cup {to} ELSE @]]

\* Workflow::AddEdge(from, to)
AddEdge(nodes, from, to) ==
  [i \in DOMAIN nodes |->
     [nodes[i] EXCEPT
        !.children = IF i = from THEN @ \cup {to} ELSE @,
        !.deps = IF i = to THEN @ \cup {from} ELSE @]]

\* deps that are satisfied whatever the state of the parents
DepsSatisfied_Always(nodes, nid) == TRUE

\* DepsSatisfied answering false for every node
DepsSatisfied_Never(nodes, nid) == FALSE

\* a test that a parent in any terminal state satisfies
DepsSatisfied_TerminalParents(nodes, nid) ==
  \A d \in nodes[nid].deps : IsTerminal(nodes[d].state)

\* DepsSatisfied that also accepts a parent that is only Runnable
DepsSatisfied_ParentRunnable(nodes, nid) ==
  \A d \in nodes[nid].deps : nodes[d].state \in {"Succeeded", "Runnable"}

\* Workflow::DepsSatisfied
DepsSatisfied(nodes, nid) ==
  \A d \in nodes[nid].deps : nodes[d].state = "Succeeded"

\* Workflow::InitializeStateFromDeps
InitializeStateFromDeps(nodes, nid) ==
  [i \in DOMAIN nodes |->
     IF i = nid /\ ~IsTerminal(nodes[i].state)
     THEN [nodes[i] EXCEPT !.state =
             IF DepsSatisfied(nodes, i) THEN "Runnable" ELSE "WaitingDeps"]
     ELSE nodes[i]]

\* SetState that checks only that the source state is not terminal
SetStateAllowed_AnySource(nodes, nid, next) ==
  ~IsTerminal(nodes[nid].state)

\* The require(...) of Workflow::SetState for a change of state to next.
SetStateAllowed(nodes, nid, next) ==
  LET cur == nodes[nid].state IN
  /\ ~IsTerminal(cur)
  /\ CASE next = "WaitingDeps" -> ~DepsSatisfied(nodes, nid)
       [] next = "Runnable" -> DepsSatisfied(nodes, nid)
       [] next = "Queued" -> cur = "Runnable"
       [] next = "Running" -> cur \in {"Queued", "Runnable"}
       [] next = "Succeeded" -> cur \in {"Running", "Queued", "Runnable"}
       [] next = "Failed" -> cur \in {"Running", "Queued", "Runnable"}
       [] next = "Cancelled" -> TRUE

\* SetState that throws on an unknown node id only
SetStateThrows_OnlyUnknown(nodes, nid, next) == nid \notin DOMAIN nodes

\* Workflow::SetState throws: unknown node id, or a refused transition.
SetStateThrows(nodes, nid, next) ==
  \/ nid \notin DOMAIN nodes
  \/ /\ nodes[nid].state # next
     /\ ~SetStateAllowed(nodes, nid, next)

\* Workflow::SetState when it does not throw
SetState(nodes, nid, next) ==
  [i \in DOMAIN nodes |->
     IF i = nid /\ nodes[i].state # next
     THEN [nodes[i] EXCEPT !.state = next]
     ELSE nodes[i]]

\* RefreshRunnable that also resets Queued nodes from their parents
RefreshRunnable_ResetsQueued(nodes) ==
  [i \in DOMAIN nodes |->
     IF IsTerminal(nodes[i].state) \/ nodes[i].state = "Running"
     THEN nodes[i]
     ELSE [nodes[i] EXCEPT !.state =
             IF DepsSatisfied(nodes, i) THEN "Runnable" ELSE "WaitingDeps"]]

\* Workflow::RefreshRunnable (the node states it leaves)
RefreshRunnable(nodes) ==
  [i \in DOMAIN nodes |->
     IF IsTerminal(nodes[i].state) \/ nodes[i].state \in {"Queued", "Running"}
     THEN nodes[i]
     ELSE [nodes[i] EXCEPT !.state =
             IF DepsSatisfied(nodes, i) THEN "Runnable" ELSE "WaitingDeps"]]

\* the vector RefreshRunnable returns
NewlyRunnable(nodes) ==
  {i \in DOMAIN nodes :
     /\ ~IsTerminal(nodes[i].state)
     /\ nodes[i].state \notin {"Queued", "Running", "Runnable"}
     /\ DepsSatisfied(nodes, i)}

\* Workflow::RunnableNodes
RunnableNodes(nodes) == {i \in DOMAIN nodes : nodes[i].state = "Runnable"}

\* PruneAfterStop cancelling every live node, whatever its iteration
PruneAfterStop_AllLive(nodes, stop_iter) ==
  RefreshRunnable(
    [i \in DOMAIN nodes |->
       IF ~IsTerminal(nodes[i].state)
       THEN [nodes[i] EXCEPT !.state = "Cancelled"]
       ELSE nodes[i]])

\* Workflow::PruneAfterStop (node states)
PruneAfterStop(nodes, stop_iter) ==
  RefreshRunnable(
    [i \in DOMAIN nodes |->
       IF ~IsTerminal(nodes[i].state) /\ nodes[i].iter > stop_iter
       THEN [nodes[i] EXCEPT !.state = "Cancelled"]
       ELSE nodes[i]])

\* Cancel without its check for a terminal state
Cancel_EvenIfTerminal(nodes, nid) ==
  RefreshRunnable([nodes EXCEPT ![nid].state = "Cancelled"])

\* Workflow::Cancel (node states); node_mut throws on an unknown id
Cancel(nodes, nid) ==
  IF IsTerminal(nodes[nid].state) THEN nodes
  ELSE RefreshRunnable([nodes EXCEPT ![nid].state = "Cancelled"])

\* One pass of the inner loop of ExpandIterationFromPlan: SimilaritySearch(p,q)
\* and ExtractEvidence(p,q) behind embed_id, with the edges embed -> ss -> ex.
AddSubquery(w, nodes, embed_id, iter, p, q) ==
  AddEdge(
    AddEdge(
      AddNode(
        AddNode(nodes, MkNode("SimilaritySearch", iter, p, q, 0)),
        MkNode("ExtractEvidence", iter, p, q,
               EvidenceTable[w.params.seed, w.id, iter, p, q])),
      embed_id, Len(nodes) + 1),
    Len(nodes) + 1, Len(nodes) + 2)

\* The inner loop for q = from .. subqueries_per_iter - 1
RECURSIVE AddSubqueries(_, _, _, _, _, _)
AddSubqueries(w, nodes, embed_id, iter, p, from) ==
  IF from >= w.params.subqueries_per_iter THEN nodes
  ELSE AddSubqueries(w, AddSubquery(w, nodes, embed_id, iter, p, from),
                     embed_id, iter, p, from + 1)

\* One pass of the outer loop: LoadPDF(p), Chunk(p), Embed(p) with the edges
\* plan -> load -> chunk -> embed, then the inner loop behind the embed node.
AddPdf(w, nodes, plan_node, iter, p) ==
  AddSubqueries(w,
    AddEdge(
      AddEdge(
        AddEdge(
          AddNode(
            AddNode(
              AddNode(nodes, MkNode("LoadPDF", iter, p, -1, 0)),
              MkNode("Chunk", iter, p, -1, 0)),
            MkNode("Embed", iter, p, -1, 0)),
          plan_node, Len(nodes) + 1),
        Len(nodes) + 1, Len(nodes) + 2),
      Len(nodes) + 2, Len(nodes) + 3),
    Len(nodes) + 3, iter, p, 0)

\* The outer loop for p = from .. pdfs - 1
RECURSIVE AddPdfs(_, _, _, _, _)
AddPdfs(w, nodes, plan_node, iter, from) ==
  IF from >= w.params.pdfs THEN nodes
  ELSE AddPdfs(w, AddPdf(w, nodes, plan_node, iter, from),
               plan_node, iter, from + 1)

RECURSIVE AddEdgesTo(_, _, _)
AddEdgesTo(nodes, froms, to) ==
  IF froms = {} THEN nodes
  ELSE AddEdgesTo(AddEdge(nodes, CHOOSE x \in froms : TRUE, to),
                  froms \ {CHOOSE x \in froms : TRUE}, to)

\* The tail of ExpandIterationFromPlan: Aggregate and DecideNext after the
\* nodes of the pdfs; ids above first are the nodes this expansion created.
AddAggregateAndDecide(nodes, first, plan_node, iter) ==
  InitializeStateFromDeps(
    InitializeStateFromDeps(
      AddEdge(
        IF \E i \in DOMAIN nodes : i > first /\ nodes[i].type = "ExtractEvidence"
        THEN AddEdgesTo(
               AddNode(AddNode(nodes, MkNode("Aggregate", iter, -1, -1, 0)),
                       MkNode("DecideNext", iter, -1, -1, 0)),
               {i \in DOMAIN nodes :
                  i > first /\ nodes[i].type = "ExtractEvidence"},
               Len(nodes) + 1)
        ELSE AddEdge(
               AddNode(AddNode(nodes, MkNode("Aggregate", iter, -1, -1, 0)),
                       MkNode("DecideNext", iter, -1, -1, 0)),
               plan_node, Len(nodes) + 1),
        Len(nodes) + 1, Len(nodes) + 2),
      Len(nodes) + 1),
    Len(nodes) + 2)

\* ExpandIterationFromPlan without its guard against a second expansion
ExpandIterationFromPlan_NoGuard(w, plan_node) ==
  IF w.nodes[plan_node].iter >= w.params.max_iters THEN w.nodes
  ELSE AddAggregateAndDecide(
         AddPdfs(w, w.nodes, plan_node, w.nodes[plan_node].iter, 0),
         Len(w.nodes), plan_node, w.nodes[plan_node].iter)

\* Workflow::ExpandIterationFromPlan (the node map it leaves)
ExpandIterationFromPlan(w, plan_node) ==
  IF w.nodes[plan_node].iter >= w.params.max_iters THEN w.nodes
  ELSE IF \E i \in DOMAIN w.nodes :
            /\ w.nodes[i].type = "Aggregate"
            /\ w.nodes[i].iter = w.nodes[plan_node].iter
  THEN w.nodes
  ELSE AddAggregateAndDecide(
         AddPdfs(w, w.nodes, plan_node, w.nodes[plan_node].iter, 0),
         Len(w.nodes), plan_node, w.nodes[plan_node].iter)

RECURSIVE SumEvidence(_, _)
SumEvidence(nodes, ids) ==
  IF ids = {} THEN 0
  ELSE LET i == CHOOSE x \in ids : TRUE
       IN nodes[i].evidence_count_est + SumEvidence(nodes, ids \ {i})

\* Workflow::IterEvidenceTotal
IterEvidenceTotal(nodes, iter) ==
  SumEvidence(nodes, {i \in DOMAIN nodes :
                        nodes[i].iter = iter /\ nodes[i].type = "ExtractEvidence"})

\* Workflow::IterPdfCoverageCount
IterPdfCoverageCount(nodes, iter) ==
  Cardinality({nodes[i].pdf_idx : i \in
     {j \in DOMAIN nodes : /\ nodes[j].iter = iter
                           /\ nodes[j].type = "ExtractEvidence"
                           /\ nodes[j].evidence_count_est > 0}})

\* a decision that never stops, whatever max_iters is
ComputeDecideAction_NoIterCap(w, iter) == "Continue"

\* a decision that stops early while nodes of the iteration are still live
ComputeDecideAction_ByProgress(w, iter) ==
  IF iter + 1 >= w.params.max_iters THEN "Stop"
  ELSE IF \E i \in DOMAIN w.nodes :
            w.nodes[i].iter = iter /\ ~IsTerminal(w.nodes[i].state)
  THEN "Stop"
  ELSE "Continue"

\* Workflow::ComputeDecideAction. The comparisons of doubles are exact here:
\* covered/pdfs >= 0.60 is 5*covered >= 3*pdfs, total/denom >= 0.50 is
\* 2*total >= denom, >= 0.45 is 20*covered >= 9*pdfs, >= 0.35 is
\* 20*total >= 7*denom, and (h & 0xFFFF)/65535.0 > 0.70 is 10*u > 7*65535.
ComputeDecideAction(w, iter) ==
  IF iter + 1 >= w.params.max_iters THEN "Stop"
  ELSE
    LET total == IterEvidenceTotal(w.nodes, iter)
        covered == IterPdfCoverageCount(w.nodes, iter)
        pdfs == Max(1, w.params.pdfs)
        denom == Max(1, w.params.pdfs * Max(1, w.params.subqueries_per_iter) * 2)
        conf == Min(denom, total)    \* min(1.0, total/denom), times denom
        u == TieTable[w.params.seed, w.id, iter]
        strong == 5 * covered >= 3 * pdfs /\ 2 * conf >= denom
        borderline == /\ 20 * covered >= 9 * pdfs
                      /\ 20 * conf >= 7 * denom
                      /\ 10 * u > 7 * 65535
    IN IF strong \/ borderline THEN "Stop" ELSE "Continue"

\* a Continue branch that plans the same iteration again
AddNextPlan_SameIter(nodes, decide_node, iter) ==
  InitializeStateFromDeps(
    AddEdge(AddNode(nodes, MkNode("Plan", iter, -1, -1, 0)),
            decide_node, Len(nodes) + 1),
    Len(nodes) + 1)

\* The Continue branch of OnDecideNext: the Plan of the next iteration
AddNextPlan(nodes, decide_node, iter) ==
  InitializeStateFromDeps(
    AddEdge(AddNode(nodes, MkNode("Plan", iter + 1, -1, -1, 0)),
            decide_node, Len(nodes) + 1),
    Len(nodes) + 1)

\* Workflow::OnDecideNext
OnDecideNext(w, decide_node) ==
  IF ComputeDecideAction(w, w.nodes[decide_node].iter) = "Stop"
  THEN [w EXCEPT !.done = TRUE, !.stop_iter = w.nodes[decide_node].iter,
                 !.nodes = PruneAfterStop(@, w.nodes[decide_node].iter)]
  ELSE [w EXCEPT !.nodes = AddNextPlan(@, decide_node, w.nodes[decide_node].iter)]

\* a MarkSucceeded that ends without its call of RefreshRunnable
AfterSucceeded_NoRefresh(w, nid) ==
  IF w.nodes[nid].type = "Plan"
  THEN [w EXCEPT !.nodes = ExpandIterationFromPlan(w, nid)]
  ELSE IF w.nodes[nid].type = "DecideNext"
  THEN [OnDecideNext(w, nid) EXCEPT
          !.completed_iters = Max(@, w.nodes[nid].iter + 1)]
  ELSE w

\* What MarkSucceeded does after SetState returned, by the type of the node
AfterSucceeded(w, nid) ==
  IF w.nodes[nid].type = "Plan"
  THEN [w EXCEPT !.nodes = RefreshRunnable(ExpandIterationFromPlan(w, nid))]
  ELSE IF w.nodes[nid].type = "DecideNext"
  THEN [OnDecideNext(w, nid) EXCEPT
          !.completed_iters = Max(@, w.nodes[nid].iter + 1),
          !.nodes = RefreshRunnable(@)]
  ELSE [w EXCEPT !.nodes = RefreshRunnable(@)]

\* Workflow::MarkSucceeded when SetState does not throw
MarkSucceeded(w, nid) ==
  AfterSucceeded([w EXCEPT !.nodes = SetState(@, nid, "Succeeded")], nid)

\* Workflow::MarkFailed when SetState does not throw
MarkFailed(w, nid) ==
  [w EXCEPT !.nodes = RefreshRunnable(SetState(w.nodes, nid, "Failed"))]

\* Workflow::MarkQueued / MarkRunning when SetState does not throw
MarkQueued(w, nid) == [w EXCEPT !.nodes = SetState(w.nodes, nid, "Queued")]
MarkRunning(w, nid) == [w EXCEPT !.nodes = SetState(w.nodes, nid, "Running")]

\* Workflow::EnsureInitialPlan
EnsureInitialPlan ==
  <<[MkNode("Plan", 0, -1, -1, 0) EXCEPT !.state = "Runnable"]>>

\* Workflow::Workflow(id, params): the constructor (params already validated)
NewWorkflow(id, params) ==
  [id |-> id, params |-> params,
   nodes |-> RefreshRunnable(EnsureInitialPlan),
   done |-> FALSE, completed_iters |-> 0, stop_iter |-> NoStop]

-----------------------------------------------------------------------------
(* SpecWF: one Workflow object driven through its public operations, in    *)
(* any order and on any node id (known or not).                            *)

MaxPlans == 2      \* no call that would leave more Plan nodes than this is made
MaxGraph == 16     \* workloads generate at most this many nodes
MaxCancels == 2    \* the client makes at most this many Cancel/PruneAfterStop calls

\* op records whether the last call returned or threw, and the number of
\* Cancel and PruneAfterStop calls made so far
NoCall == [last |-> "none", cancels |-> 0]

Returned(c) == [last |-> "returned", cancels |-> op.cancels + c]

Threw(c) == [last |-> "threw", cancels |-> op.cancels + c]

PlanCount(w) ==
  Cardinality({i \in DOMAIN w.nodes : w.nodes[i].type = "Plan"})

\* nodes of a workload whose every iteration is generated
GraphSize(p) ==
  p.max_iters * (3 + p.pdfs * (3 + 2 * p.subqueries_per_iter))

ParamSets ==
  {p \in [pdfs : 1..MaxPdfs, subqueries_per_iter : 0..MaxSubq,
          max_iters : 1..MaxIters, seed : 1..MaxSeed] :
     GraphSize(p) <= MaxGraph}

WfId == 1          \* the id of the workflow object under test

\* the variables of the controller, tiers and threads, when none exists
NoController ==
  /\ cfg = <<>>
  /\ tiers = <<>>
  /\ tworkers = <<>>
  /\ cpu_queue = <<>>
  /\ io_queue = <<>>
  /\ result_queue = <<>>
  /\ flags = <<>>
  /\ ctl = <<>>
  /\ tthreads = <<>>

ControllerVars ==
  <<cfg, tiers, tworkers, cpu_queue, io_queue, result_queue,
    flags, ctl, tthreads>>

InitWF ==
  /\ \E params \in ParamSets : wfs = <<NewWorkflow(WfId, params)>>
  /\ op = NoCall
  /\ NoController

NodeIds == 1..(Len(wfs[1].nodes) + 1)    \* the last one is not in the graph

\* a call of a Mark* operation that goes through SetState(nid, next)
CallMark(nid, next, result) ==
  /\ UNCHANGED ControllerVars
  /\ IF SetStateThrows(wfs[1].nodes, nid, next)
     THEN /\ op' = Threw(0)
          /\ UNCHANGED wfs
     ELSE /\ op' = Returned(0)
          /\ wfs' = <<result>>

CallMarkQueued ==
  \E nid \in NodeIds : CallMark(nid, "Queued", MarkQueued(wfs[1], nid))

CallMarkRunning ==
  \E nid \in NodeIds : CallMark(nid, "Running", MarkRunning(wfs[1], nid))

CallMarkSucceeded ==
  \E nid \in NodeIds :
    /\ nid \in DOMAIN wfs[1].nodes =>
         PlanCount(MarkSucceeded(wfs[1], nid)) <= MaxPlans
    /\ CallMark(nid, "Succeeded", MarkSucceeded(wfs[1], nid))

CallMarkFailed ==
  \E nid \in NodeIds : CallMark(nid, "Failed", MarkFailed(wfs[1], nid))

CallCancel ==
  /\ UNCHANGED ControllerVars
  /\ op.cancels < MaxCancels
  /\ \E nid \in NodeIds :
       IF nid \notin DOMAIN wfs[1].nodes
       THEN /\ op' = Threw(1)
            /\ UNCHANGED wfs
       ELSE /\ op' = Returned(1)
            /\ wfs' = <<[wfs[1] EXCEPT !.nodes = Cancel(@, nid)]>>

CallPruneAfterStop ==
  /\ UNCHANGED ControllerVars
  /\ op.cancels < MaxCancels
  /\ \E stop_iter \in -1..MaxIters :
       /\ op' = Returned(1)
       /\ wfs' = <<[wfs[1] EXCEPT !.nodes = PruneAfterStop(@, stop_iter)]>>

CallRefreshRunnable ==
  /\ UNCHANGED ControllerVars
  /\ op' = Returned(0)
  /\ wfs' = <<[wfs[1] EXCEPT !.nodes = RefreshRunnable(@)]>>

NextWF ==
  \/ CallMarkQueued
  \/ CallMarkRunning
  \/ CallMarkSucceeded
  \/ CallMarkFailed
  \/ CallCancel
  \/ CallPruneAfterStop
  \/ CallRefreshRunnable

SpecWF == InitWF /\ [][NextWF]_vars

-----------------------------------------------------------------------------
(* SpecSanity: the workflow generator sanity loop of RunSimulation          *)
(* (main.cpp): one Workflow after the other is driven to done by running   *)
(* a Runnable node to success in every turn of the loop.                   *)

\* the workloads the sanity run is started with
SanityParams ==
  [pdfs : 1..MaxPdfs, subqueries_per_iter : 0..MaxSubq,
   max_iters : 1..MaxIters, seed : 1..MaxSeed]

\* sim::Workflow wf(i + 1, wp) for i = 0
InitSanity ==
  /\ \E params \in SanityParams : wfs = <<NewWorkflow(1, params)>>
  /\ op = NoCall
  /\ NoController

\* what one turn of the while loop sees after wf.RefreshRunnable()
SanityRunnable(w) == RunnableNodes(RefreshRunnable(w.nodes))

\* the turn itself on the node it picked
SanityTurn(w, nid) ==
  MarkSucceeded(MarkRunning([w EXCEPT !.nodes = RefreshRunnable(w.nodes)], nid), nid)

\* One turn of while (!wf.done()).  main.cpp takes runnable.front(), the
\* smallest id; the turn is modelled for every Runnable node, the smallest
\* included.  With no Runnable node the loop throws and the run ends.
SanityStep ==
  /\ ~wfs[1].done
  /\ \E nid \in SanityRunnable(wfs[1]) :
        wfs' = <<SanityTurn(wfs[1], nid)>>
  /\ op' = Returned(0)
  /\ UNCHANGED ControllerVars

\* the for loop: the next Workflow, id i + 1, with the same parameters
SanityNextWorkflow ==
  /\ wfs[1].done
  /\ wfs[1].id < MaxWfId
  /\ wfs' = <<NewWorkflow(wfs[1].id + 1, wfs[1].params)>>
  /\ op' = NoCall
  /\ UNCHANGED ControllerVars

NextSanity ==
  \/ SanityStep
  \/ SanityNextWorkflow

SpecSanity == InitSanity /\ [][NextSanity]_vars

\* the smallest id of a set of node ids: runnable.front() of the sorted vector
FrontOf(ids) == CHOOSE i \in ids : \A j \in ids : i <= j

\* The while loop of the sanity run as main.cpp runs it, every turn on
\* runnable.front(), until the workflow is done (or the loop would throw).
\* (the node vector is rebuilt as an explicit sequence after every turn)
NodeVector(w) == [w EXCEPT !.nodes = SubSeq(w.nodes, 1, Len(w.nodes))]

RECURSIVE SanityRun(_)
SanityRun(w) ==
  IF w.done \/ SanityRunnable(w) = {} THEN w
  ELSE SanityRun(NodeVector(SanityTurn(w, FrontOf(SanityRunnable(w)))))

\* the workflow the sanity run leaves, for every workload and workflow id
SanityResult ==
  [x \in {<<p, id>> : p \in SanityParams, id \in 1..MaxWfId} |->
     SanityRun(NewWorkflow(x[2], x[1]))]

-----------------------------------------------------------------------------
(* Tier: provider.h, provider.cpp                                          *)

\* Tier::Tier: an empty queue and in_flight_ = 0
NewTier(provider, tier_id, price, cap) ==
  [provider |-> provider, tier_id |-> tier_id, price_per_call |-> price,
   concurrency_cap |-> cap, queue |-> <<>>, in_flight |-> 0]

\* Tier::can_accept
can_accept(t) == t.in_flight < t.concurrency_cap

\* an Enqueue that puts the attempt at the front of the queue
Enqueue_AtFront(t, attempt) == [t EXCEPT !.queue = <<attempt>> \o @]

\* Tier::Enqueue
Enqueue(t, attempt) == [t EXCEPT !.queue = Append(@, attempt)]

\* TryDequeue's test that ignores the concurrency cap
DequeueReady_NoCap(t) == t.queue # <<>>

\* the test TryDequeue and BlockingDequeue make under queue_mutex_
DequeueReady(t) == t.queue # <<>> /\ t.in_flight < t.concurrency_cap

\* the pop and fetch_add(1) of TryDequeue and BlockingDequeue
Dequeue(t) == [t EXCEPT !.queue = Tail(@), !.in_flight = @ + 1]

\* Tier::OnAttemptFinish
OnAttemptFinish(t) == [t EXCEPT !.in_flight = @ - 1]

-----------------------------------------------------------------------------
(* SpecTier: one Tier shared by two producer threads (the scheduler and    *)
(* the monitor, which call Enqueue) and worker threads that dequeue, hold  *)
(* an attempt and call OnAttemptFinish. queue_mutex_ is held by the thread *)
(* whose pc is "locked".                                                   *)

TierWorkers == 3     \* worker threads on the tier
MaxTierCap == 2      \* concurrency_cap ranges over 1..MaxTierCap
MaxEnqueues == 2     \* attempts each producer enqueues

Producers == {"scheduler", "monitor"}

WorkerIds == 1..TierWorkers

MutexFree == \A w \in WorkerIds : tthreads.workers[w].pc # "locked"

\* everything but the tier and its threads
NonTierVars ==
  <<wfs, op, cfg, tworkers, cpu_queue, io_queue, result_queue,
    flags, ctl>>

InitTier ==
  /\ \E cap \in 1..MaxTierCap : tiers = <<NewTier("llm_provider", 0, 100, cap)>>
  /\ tthreads =
       [workers |-> [w \in WorkerIds |->
                       [pc |-> "idle", call |-> "", returned |-> FALSE,
                        out |-> <<>>]],
        sent |-> [p \in Producers |-> 0]]
  /\ wfs = <<>>
  /\ op = NoCall
  /\ cfg = <<>>
  /\ tworkers = <<>>
  /\ cpu_queue = <<>>
  /\ io_queue = <<>>
  /\ result_queue = <<>>
  /\ flags = <<>>
  /\ ctl = <<>>

\* the Enqueue calls made so far, by any producer
EnqueuedSoFar == tthreads.sent["scheduler"] + tthreads.sent["monitor"]

\* a producer calls Tier::Enqueue; seq is the rank of the call
ProducerEnqueue(p) ==
  /\ MutexFree
  /\ tthreads.sent[p] < MaxEnqueues
  /\ tiers' = <<Enqueue(tiers[1], [by |-> p, seq |-> EnqueuedSoFar + 1])>>
  /\ tthreads' = [tthreads EXCEPT !.sent[p] = @ + 1]
  /\ UNCHANGED NonTierVars

\* a worker calls TryDequeue: it takes the mutex and tests; a failed test
\* returns false at once
TryDequeueTest(w) ==
  /\ tthreads.workers[w].pc = "idle"
  /\ MutexFree
  /\ tthreads' = [tthreads EXCEPT !.workers[w] =
       IF DequeueReady(tiers[1])
       THEN [pc |-> "locked", call |-> "TryDequeue", returned |-> FALSE,
             out |-> <<>>]
       ELSE [pc |-> "idle", call |-> "TryDequeue", returned |-> TRUE,
             out |-> <<>>]]
  /\ UNCHANGED tiers
  /\ UNCHANGED NonTierVars

\* a worker in BlockingDequeue wakes with the mutex and its predicate true
BlockingDequeueWake(w) ==
  /\ tthreads.workers[w].pc = "idle"
  /\ MutexFree
  /\ DequeueReady(tiers[1])
  /\ tthreads' = [tthreads EXCEPT !.workers[w] =
       [pc |-> "locked", call |-> "BlockingDequeue", returned |-> FALSE,
        out |-> <<>>]]
  /\ UNCHANGED tiers
  /\ UNCHANGED NonTierVars

\* the worker holding the mutex moves the front into out, pops it, adds one
\* to in_flight_ and unlocks
DequeuePop(w) ==
  /\ tthreads.workers[w].pc = "locked"
  /\ tiers' = <<Dequeue(tiers[1])>>
  /\ tthreads' = [tthreads EXCEPT !.workers[w].pc = "holding",
                                  !.workers[w].returned = TRUE,
                                  !.workers[w].out = <<Head(tiers[1].queue)>>]
  /\ UNCHANGED NonTierVars

\* the worker that holds an attempt calls OnAttemptFinish (no mutex taken)
WorkerFinish(w) ==
  /\ tthreads.workers[w].pc = "holding"
  /\ tiers' = <<OnAttemptFinish(tiers[1])>>
  /\ tthreads' = [tthreads EXCEPT !.workers[w].pc = "idle",
                                  !.workers[w].out = <<>>]
  /\ UNCHANGED NonTierVars

NextTier ==
  \/ \E p \in Producers : ProducerEnqueue(p)
  \/ \E w \in WorkerIds : TryDequeueTest(w)
  \/ \E w \in WorkerIds : BlockingDequeueWake(w)
  \/ \E w \in WorkerIds : DequeuePop(w)
  \/ \E w \in WorkerIds : WorkerFinish(w)

SpecTier == InitTier /\ [][NextTier]_vars

-----------------------------------------------------------------------------
(* Provider configuration: config.cpp. Prices are in units of 0.0001.      *)

EmbedSlowPrice == 1      \* embed_provider tier 0: 0.0001
EmbedFastPrice == 5      \* embed_provider tier 1: 0.0005
LlmSlowPrice == 100      \* llm_provider tier 0: 0.01
LlmFastPrice == 500      \* llm_provider tier 1: 0.05

\* concurrency caps; config.cpp sets 4, 8, 2 and 4, scaled down here so that a
\* tier reaches its cap with the workloads modelled
EmbedSlowCap == 1
EmbedFastCap == 1
LlmSlowCap == 1
LlmFastCap == 1

\* ProviderConfig::ProviderConfig: the tiers in the order tiers() keeps them
TierConfigs ==
  << [provider |-> "embed_provider", tier_id |-> 0,
      price_per_call |-> EmbedSlowPrice, concurrency_cap |-> EmbedSlowCap],
     [provider |-> "embed_provider", tier_id |-> 1,
      price_per_call |-> EmbedFastPrice, concurrency_cap |-> EmbedFastCap],
     [provider |-> "llm_provider", tier_id |-> 0,
      price_per_call |-> LlmSlowPrice, concurrency_cap |-> LlmSlowCap],
     [provider |-> "llm_provider", tier_id |-> 1,
      price_per_call |-> LlmFastPrice, concurrency_cap |-> LlmFastCap] >>

TierIds == 1..Len(TierConfigs)    \* a tier is named by its position

\* ProviderManager::ProviderManager: one Tier per TierConfig
NewTiers ==
  [i \in TierIds |->
     NewTier(TierConfigs[i].provider, TierConfigs[i].tier_id,
             TierConfigs[i].price_per_call, TierConfigs[i].concurrency_cap)]

\* the tiers of a provider, cheapest first
SortedByPrice(provider) ==
  LET ids == {i \in TierIds : TierConfigs[i].provider = provider}
      rank(i) == Cardinality({j \in ids :
                    \/ TierConfigs[j].price_per_call < TierConfigs[i].price_per_call
                    \/ /\ TierConfigs[j].price_per_call = TierConfigs[i].price_per_call
                       /\ j < i})
  IN [k \in 1..Cardinality(ids) |-> CHOOSE i \in ids : rank(i) = k - 1]

\* Workflow::PopulatePreferenceListForNode: the node's preference list
PreferenceList(resource_class) ==
  IF resource_class = "embed" THEN SortedByPrice("embed_provider")
  ELSE IF resource_class = "llm" THEN SortedByPrice("llm_provider")
  ELSE <<>>

-----------------------------------------------------------------------------
(* LatencyEstimateStore: metrics.cpp                                       *)

DefaultP50 == 100           \* QuantileEstimator::P50 without samples
DefaultQueueWaitP95 == 50   \* GetP95QueueWait without samples
LatencyWindow == 1          \* samples a QuantileEstimator keeps (1000 in metrics.h)
Duration == 400             \* duration_ms of every attempt of a controller run

RECURSIVE SortedSamples(_)
SortedSamples(q) ==
  IF q = <<>> THEN <<>>
  ELSE LET m == CHOOSE i \in DOMAIN q : \A j \in DOMAIN q : q[i] <= q[j]
       IN <<q[m]>> \o SortedSamples([k \in 1..(Len(q) - 1) |->
                                 IF k < m THEN q[k] ELSE q[k + 1]])

\* QuantileEstimator::Add
AddSample(samples, v) ==
  IF Len(samples) + 1 > LatencyWindow THEN Tail(Append(samples, v))
  ELSE Append(samples, v)

\* QuantileEstimator::P50: sorted[min(floor(0.5 * size), size - 1)]
P50(samples) ==
  IF samples = <<>> THEN DefaultP50
  ELSE SortedSamples(samples)[Min(Len(samples) \div 2, Len(samples) - 1) + 1]

\* LatencyEstimateStore::Record; a key is <<node type, tier>>, tier 0 "local"
Record(store, type, tier, duration) ==
  [k \in DOMAIN store \cup {<<type, tier>>} |->
     IF k = <<type, tier>>
     THEN AddSample(IF k \in DOMAIN store THEN store[k] ELSE <<>>, duration)
     ELSE store[k]]

\* LatencyEstimateStore::GetP50
GetP50(store, type, tier) ==
  IF <<type, tier>> \in DOMAIN store THEN P50(store[<<type, tier>>])
  ELSE DefaultP50

\* LatencyEstimateStore::GetP95QueueWait: RecordQueueWait is never called, so
\* no provider has samples
GetP95QueueWait(tier) == DefaultQueueWaitP95

-----------------------------------------------------------------------------
(* Scheduler: scheduler.h, scheduler.cpp. cfg holds the ControllerConfig   *)
(* and the SchedulerConfig of the run; money is in units of 0.0001.        *)

DefaultMaxInFlight == 200     \* SchedulerConfig::max_in_flight_global
DefaultBudget == 100000       \* SchedulerConfig::budget_per_workflow = 10.0
ThresholdNum == 1             \* escalation_benefit_cost_threshold = 0.5,
ThresholdDen == 2             \*   as ThresholdNum / ThresholdDen

\* Controller::IsCriticalPath
IsCriticalPath(n) ==
  n.type \in {"Plan", "Aggregate", "DecideNext", "ExtractEvidence"}

\* the policies under which SelectOption commits to the first acceptable option
CommitsToFirst ==
  \/ cfg.disable_escalation
  \/ cfg.policy = "fifo_cheapest"
  \/ cfg.policy = "dag_cheapest"

\* the option is within the budget left and its tier can take an attempt
Acceptable(t, budget_left) ==
  /\ tiers[t].price_per_call <= budget_left
  /\ can_accept(tiers[t])

\* expected completion time of a node type on a tier
ECT(store, type, t) == GetP95QueueWait(t) + GetP50(store, type, t)

\* benefit / delta_cost >= escalation_benefit_cost_threshold, delta_cost > 0
\* in units of 0.0001
BenefitMeetsThreshold(benefit, delta_cost) ==
  benefit * 10000 * ThresholdDen >= ThresholdNum * delta_cost

\* The body of SelectOption's loop for the first option opt that is neither
\* over budget nor refused by its tier: chosen = &opt, then the tests that
\* leave the loop. Every path leaves with chosen = &opt.
SelectAt(pref, opt, type, is_critical, store) ==
  IF CommitsToFirst THEN opt
  ELSE IF ~is_critical THEN opt
  ELSE IF tiers[opt].price_per_call - tiers[pref[1]].price_per_call <= 0 THEN opt
  ELSE IF BenefitMeetsThreshold(
            ECT(store, type, pref[1]) - ECT(store, type, opt),
            tiers[opt].price_per_call - tiers[pref[1]].price_per_call)
       THEN opt
       ELSE opt

\* Scheduler::SelectOption: the tier of the option returned, 0 for nullptr
SelectOption(n, workflow_cost, is_critical, store) ==
  LET pref == PreferenceList(n.resource_class)
      budget_left == cfg.budget_per_workflow - workflow_cost
      ok == {i \in DOMAIN pref : Acceptable(pref[i], budget_left)}
  IN IF pref = <<>> THEN 0
     ELSE IF ok = {} THEN pref[1]
     ELSE SelectAt(pref, pref[CHOOSE i \in ok : \A j \in ok : i <= j],
                   n.type, is_critical, store)

\* Dispatch without model routing: the first tier of the provider, in tiers()
\* order, that can accept; 0 when there is none
FirstAccepting(resource_class) ==
  LET name == IF resource_class = "embed" THEN "embed_provider" ELSE "llm_provider"
      ok == {i \in TierIds : tiers[i].provider = name /\ can_accept(tiers[i])}
  IN IF ok = {} THEN 0 ELSE CHOOSE i \in ok : \A j \in ok : i <= j

\* the tier Dispatch sends a provider-backed node to; 0 when it skips the node
DispatchTier(n, workflow_cost, store) ==
  IF cfg.enable_model_routing /\ PreferenceList(n.resource_class) # <<>>
  THEN IF can_accept(tiers[SelectOption(n, workflow_cost, IsCriticalPath(n), store)])
       THEN SelectOption(n, workflow_cost, IsCriticalPath(n), store)
       ELSE 0
  ELSE FirstAccepting(n.resource_class)

\* the Queued and Running nodes of the workflows that are not done
InFlightGlobal(ws) ==
  Cardinality({x \in UNION {{<<w, i>> : i \in DOMAIN ws[w].nodes} : w \in DOMAIN ws} :
                 /\ ~ws[x[1]].done
                 /\ ws[x[1]].nodes[x[2]].state \in {"Queued", "Running"}})

\* a pass that never stops for the global cap
DispatchStops_Never(in_flight) == FALSE

\* Dispatch leaves its loop when in_flight >= max_in_flight_global
DispatchStops(in_flight) == in_flight >= cfg.max_in_flight_global

\* a QueuedAttempt: the node, the attempt (0 the original, k the k-th hedge),
\* the tier; its cancelled pointer is the flag <<wf, node, attempt>>
Attempt(w, nid, k, t) == [wf |-> w, node |-> nid, attempt |-> k, tier |-> t]

\* the std::atomic<bool> an attempt points to
FlagOf(a) == <<a.wf, a.node, a.attempt>>

\* new std::atomic<bool>(false)
NewFlag(fl, ptr) ==
  [f \in DOMAIN fl \cup {ptr} |-> IF f = ptr THEN FALSE ELSE fl[f]]

\* map[key] = value of an unordered_map
MapPut(m, key, value) ==
  [k \in DOMAIN m \cup {key} |-> IF k = key THEN value ELSE m[k]]

\* Dispatch pushes a LocalTask for a cpu or io node
DispatchLocal(st, w, nid) ==
  [st EXCEPT
     !.wfs[w] = MarkQueued(@, nid),
     !.cpu = IF st.wfs[w].nodes[nid].resource_class = "cpu"
             THEN Append(@, [wf |-> w, node |-> nid]) ELSE @,
     !.io = IF st.wfs[w].nodes[nid].resource_class = "io"
            THEN Append(@, [wf |-> w, node |-> nid]) ELSE @,
     !.started = @ \cup {<<w, nid>>},
     !.in_flight = @ + 1]

\* the attempts launched so far for a node: next_attempt_id_ gives each a
\* fresh id, here its rank among the attempts of its node
AttemptsOf(fl, w, nid) ==
  Cardinality({f \in DOMAIN fl : f[1] = w /\ f[2] = nid})

\* Dispatch enqueues a QueuedAttempt on tier t with a new cancellation flag
DispatchProvider(st, w, nid, t) ==
  IF t = 0 THEN st
  ELSE [st EXCEPT
          !.flags = NewFlag(@, <<w, nid, AttemptsOf(st.flags, w, nid)>>),
          !.cancelled_flags =
             MapPut(@, <<w, nid>>, <<w, nid, AttemptsOf(st.flags, w, nid)>>),
          !.wfs[w] = MarkQueued(@, nid),
          !.tiers[t] = Enqueue(@, Attempt(w, nid, AttemptsOf(st.flags, w, nid), t)),
          !.started = @ \cup {<<w, nid>>},
          !.in_flight = @ + 1]

\* one pass of Dispatch's loop over the scored nodes, from position k
RECURSIVE DispatchLoop(_, _, _)
DispatchLoop(st, scored, k) ==
  IF k > Len(scored) THEN st
  ELSE IF DispatchStops(st.in_flight) THEN st
  ELSE IF st.wfs[scored[k][1]].nodes[scored[k][2]].state # "Runnable"
  THEN DispatchLoop(st, scored, k + 1)
  ELSE IF st.wfs[scored[k][1]].nodes[scored[k][2]].resource_class \in {"cpu", "io"}
  THEN DispatchLoop(DispatchLocal(st, scored[k][1], scored[k][2]), scored, k + 1)
  ELSE DispatchLoop(
         DispatchProvider(st, scored[k][1], scored[k][2],
           DispatchTier(st.wfs[scored[k][1]].nodes[scored[k][2]],
                        ctl.workflow_cost[scored[k][1]], ctl.latency)),
         scored, k + 1)

\* a pass that also scores the Runnable nodes of done workflows
Scorable_WithDone ==
  {x \in UNION {{<<w, i>> : i \in DOMAIN wfs[w].nodes} : w \in DOMAIN wfs} :
     wfs[x[1]].nodes[x[2]].state = "Runnable"}

\* the nodes ScoreAndSort scores: the Runnable nodes of the workflows not done
Scorable ==
  {x \in UNION {{<<w, i>> : i \in DOMAIN wfs[w].nodes} : w \in DOMAIN wfs} :
     ~wfs[x[1]].done /\ wfs[x[1]].nodes[x[2]].state = "Runnable"}

\* ScoreAndSort: the scores weigh wall-clock ages and latency estimates and
\* the sort is not stable, so the scored nodes come in any order
ScoreAndSort ==
  {q \in [1..Cardinality(Scorable) -> Scorable] :
     \A i, j \in DOMAIN q : i # j => q[i] # q[j]}

-----------------------------------------------------------------------------
(* Controller: controller.h, controller.cpp, worker.cpp. Spec is a whole   *)
(* run: the scheduler thread, the monitor thread, the tier and local       *)
(* worker threads and the main thread in Controller::Run.                  *)

MaxHedges == 2       \* HedgeLaunched events of a run

\* a ControllerConfig with the SchedulerConfig fields the scheduler reads
Config(workflows, policy, routing, no_hedging, max_in_flight, budget) ==
  [workflows |-> workflows, pdfs |-> 1, subqueries |-> 0, iters |-> 1,
   seed |-> 1, policy |-> policy, disable_hedging |-> no_hedging,
   disable_escalation |-> FALSE, enable_model_routing |-> routing,
   max_in_flight_global |-> max_in_flight, budget_per_workflow |-> budget]

\* the runs modelled
Configs ==
  { Config(1, "full", TRUE, FALSE, DefaultMaxInFlight, DefaultBudget),
    Config(1, "full", TRUE, TRUE, DefaultMaxInFlight, DefaultBudget),
    Config(2, "dag_cheapest", TRUE, FALSE, DefaultMaxInFlight, DefaultBudget),
    Config(2, "fifo_cheapest", FALSE, FALSE, 1, DefaultBudget),
    Config(1, "dag_escalation", TRUE, FALSE, DefaultMaxInFlight, 0),
    [Config(1, "dag_cheapest", TRUE, FALSE, DefaultMaxInFlight, DefaultBudget)
       EXCEPT !.iters = 2],
    [Config(1, "dag_cheapest", TRUE, FALSE, DefaultMaxInFlight, DefaultBudget)
       EXCEPT !.iters = 2, !.subqueries = 1] }

\* Controller::Controller and the head of Controller::Run under config c
Start(c) ==
  /\ cfg = c
  /\ wfs = [i \in 1..cfg.workflows |->
              NewWorkflow(i, [pdfs |-> cfg.pdfs,
                              subqueries_per_iter |-> cfg.subqueries,
                              max_iters |-> cfg.iters, seed |-> cfg.seed])]
  /\ tiers = NewTiers
  /\ tworkers = [i \in {0} \cup TierIds |-> {}]
  /\ cpu_queue = <<>>
  /\ io_queue = <<>>
  /\ result_queue = <<>>
  /\ flags = <<>>
  /\ ctl = [cancelled_flags |-> <<>>, attempt_start_time |-> {},
            workflow_cost |-> [i \in 1..cfg.workflows |-> 0],
            workflows_done |-> 0, shutdown |-> FALSE, latency |-> <<>>,
            hedges |-> 0, queues_shutdown |-> FALSE, joined |-> FALSE,
            freed |-> {}]
  /\ op = NoCall
  /\ tthreads = <<>>

Init == \E c \in Configs : Start(c)

\* Controller::SchedulerLoop: one pass under workflows_mutex_, Dispatch with
\* the scored nodes in some order
SchedulerLoop ==
  /\ ~ctl.shutdown
  /\ Scorable # {}
  /\ \E scored \in ScoreAndSort :
       LET st == DispatchLoop(
                   [wfs |-> wfs, tiers |-> tiers, cpu |-> cpu_queue,
                    io |-> io_queue, flags |-> flags,
                    cancelled_flags |-> ctl.cancelled_flags,
                    started |-> ctl.attempt_start_time,
                    in_flight |-> InFlightGlobal(wfs)],
                   scored, 1)
       IN /\ wfs' = st.wfs
          /\ tiers' = st.tiers
          /\ cpu_queue' = st.cpu
          /\ io_queue' = st.io
          /\ flags' = st.flags
          /\ ctl' = [ctl EXCEPT !.cancelled_flags = st.cancelled_flags,
                                !.attempt_start_time = st.started]
  /\ UNCHANGED <<op, cfg, tworkers, result_queue, tthreads>>

\* a monitor that hedges under every policy
MonitorActive_AnyPolicy == TRUE

\* MonitorLoop scans only under policy full with hedging not disabled
MonitorActive == ~cfg.disable_hedging /\ cfg.policy = "full"

\* the nodes of workflow w the scan can find past the stretch threshold: Queued,
\* with a dispatch time, on the critical path (the stretch compares wall-clock
\* time with an estimate, so any of them may be)
Stragglers(w) ==
  {i \in DOMAIN wfs[w].nodes :
     /\ wfs[w].nodes[i].state = "Queued"
     /\ <<w, i>> \in ctl.attempt_start_time
     /\ IsCriticalPath(wfs[w].nodes[i])}

\* Controller::LaunchHedge
LaunchHedge(st, w, nid) ==
  IF Len(PreferenceList(wfs[w].nodes[nid].resource_class)) < 2 THEN st
  ELSE IF ~can_accept(tiers[PreferenceList(wfs[w].nodes[nid].resource_class)[2]])
  THEN st
  ELSE [st EXCEPT
          !.flags = NewFlag(@, <<w, nid, AttemptsOf(st.flags, w, nid)>>),
          !.cancelled_flags =
             MapPut(@, <<w, nid>>, <<w, nid, AttemptsOf(st.flags, w, nid)>>),
          !.tiers[PreferenceList(wfs[w].nodes[nid].resource_class)[2]] =
             Enqueue(@, Attempt(w, nid, AttemptsOf(st.flags, w, nid),
                        PreferenceList(wfs[w].nodes[nid].resource_class)[2])),
          !.hedges = @ + 1]

\* the scan of MonitorLoop over the workflows from w on; pick[w] is the node
\* at which the scan of workflow w breaks, 0 when it finds none
RECURSIVE MonitorScan(_, _, _)
MonitorScan(st, pick, w) ==
  IF w > Len(wfs) THEN st
  ELSE IF pick[w] = 0 THEN MonitorScan(st, pick, w + 1)
  ELSE MonitorScan(LaunchHedge(st, w, pick[w]), pick, w + 1)

\* Controller::MonitorLoop: one pass under workflows_mutex_
MonitorLoop ==
  /\ ~ctl.shutdown
  /\ MonitorActive
  /\ \E pick \in [DOMAIN wfs -> 0..MaxGraph] :
       /\ \A w \in DOMAIN wfs :
            pick[w] # 0 => ~wfs[w].done /\ pick[w] \in Stragglers(w)
       /\ \E w \in DOMAIN wfs : pick[w] # 0
       /\ ctl.hedges + Cardinality({w \in DOMAIN wfs : pick[w] # 0}) <= MaxHedges
       /\ LET st == MonitorScan(
                      [flags |-> flags, cancelled_flags |-> ctl.cancelled_flags,
                       tiers |-> tiers, hedges |-> ctl.hedges], pick, 1)
          IN /\ flags' = st.flags
             /\ tiers' = st.tiers
             /\ ctl' = [ctl EXCEPT !.cancelled_flags = st.cancelled_flags,
                                   !.hedges = st.hedges]
  /\ UNCHANGED <<wfs, op, cfg, tworkers, cpu_queue, io_queue, result_queue,
                 tthreads>>

\* a Push that drops every result
Push_Drops(q, r) == q

\* ResultQueue::Push: nothing is queued once the queue is shut down
Push(q, r) == IF ctl.queues_shutdown THEN q ELSE Append(q, r)

\* Tier::TimedDequeue as TierWorkerLoop calls it: the test and the effect of
\* TryDequeue
TimedDequeueReady(t) == DequeueReady(t)

\* TierWorkerLoop: a worker of tier t takes the front attempt
TierWorkerDequeue(t) ==
  /\ ~ctl.shutdown
  /\ TimedDequeueReady(tiers[t])
  /\ tworkers' = [tworkers EXCEPT ![t] = @ \cup {Head(tiers[t].queue)}]
  /\ tiers' = [tiers EXCEPT ![t] = Dequeue(@)]
  /\ UNCHANGED <<wfs, op, cfg, cpu_queue, io_queue, result_queue, flags, ctl,
                 tthreads>>

\* the AttemptResult of a tier worker: cancelled is what CancellableSleep
\* returned, sample the outcome the LatencySampler drew
TierResult(a, cancelled, sample) ==
  [wf |-> a.wf, node |-> a.node, attempt |-> a.attempt, tier |-> a.tier,
   success |-> ~cancelled /\ sample = "ok",
   error |-> IF cancelled THEN "cancelled"
             ELSE IF sample = "ok" THEN "" ELSE sample,
   cost |-> tiers[a.tier].price_per_call]

\* TierWorkerLoop: the sleep of attempt a ends; the worker builds the result,
\* calls OnAttemptFinish and pushes the result
TierWorkerFinish(t) ==
  \E a \in tworkers[t], sample \in {"ok", "failed", "timeout"} :
    /\ tworkers' = [tworkers EXCEPT ![t] = @ \ {a}]
    /\ tiers' = [tiers EXCEPT ![t] = OnAttemptFinish(@)]
    /\ result_queue' = Push(result_queue, TierResult(a, flags[FlagOf(a)], sample))
    /\ UNCHANGED <<wfs, op, cfg, cpu_queue, io_queue, flags, ctl, tthreads>>

LocalWorkers == 4    \* worker threads of the cpu queue
IoWorkers == 2       \* worker threads of the io queue

\* the LocalTasks of a resource class that local workers hold
HeldLocal(resource_class) ==
  {task \in tworkers[0] :
     wfs[task.wf].nodes[task.node].resource_class = resource_class}

\* LocalWorkerLoop on cpu_queue: TimedPop gives a worker the front task
CpuWorkerPop ==
  /\ ~ctl.shutdown
  /\ cpu_queue # <<>>
  /\ Cardinality(HeldLocal("cpu")) < LocalWorkers
  /\ cpu_queue' = Tail(cpu_queue)
  /\ tworkers' = [tworkers EXCEPT ![0] = @ \cup {Head(cpu_queue)}]
  /\ UNCHANGED <<wfs, op, cfg, tiers, io_queue, result_queue, flags, ctl, tthreads>>

\* LocalWorkerLoop on io_queue: TimedPop gives a worker the front task
IoWorkerPop ==
  /\ ~ctl.shutdown
  /\ io_queue # <<>>
  /\ Cardinality(HeldLocal("io")) < IoWorkers
  /\ io_queue' = Tail(io_queue)
  /\ tworkers' = [tworkers EXCEPT ![0] = @ \cup {Head(io_queue)}]
  /\ UNCHANGED <<wfs, op, cfg, tiers, cpu_queue, result_queue, flags, ctl, tthreads>>

\* the AttemptResult of a local worker: task.cancelled is nullptr, so the
\* attempt is never cancelled, and nothing is sampled to fail; tier 0 is "local"
LocalResult(task) ==
  [wf |-> task.wf, node |-> task.node, attempt |-> 0, tier |-> 0,
   success |-> TRUE, error |-> "", cost |-> 0]

\* LocalWorkerLoop: the sleep of a task ends and the worker pushes the result
LocalWorkerFinish ==
  \E task \in tworkers[0] :
    /\ tworkers' = [tworkers EXCEPT ![0] = @ \ {task}]
    /\ result_queue' = Push(result_queue, LocalResult(task))
    /\ UNCHANGED <<wfs, op, cfg, tiers, cpu_queue, io_queue, flags, ctl, tthreads>>

\* ProcessResults stores true in the flag the map holds for the node
StoreCancelled(fl, cancelled_flags, key) ==
  IF key \in DOMAIN cancelled_flags
  THEN [fl EXCEPT ![cancelled_flags[key]] = TRUE]
  ELSE fl

\* ProcessResults applies a result to its workflow
ApplyResult(w, res) ==
  IF res.success THEN MarkSucceeded(w, res.node)
  ELSE IF res.error = "cancelled" THEN Cancel(w, res.node)
  ELSE MarkFailed(w, res.node)

\* a test that lets the results of a done workflow through
Skipped_OnlyTerminal(res) == IsTerminal(wfs[res.wf].nodes[res.node].state)

\* a test that lets through the results of nodes already terminal
Skipped_OnlyDone(res) == wfs[res.wf].done

\* ProcessResults skips a result of a done workflow or of a terminal node
Skipped(res) ==
  wfs[res.wf].done \/ IsTerminal(wfs[res.wf].nodes[res.node].state)

\* Controller::ProcessResults: one turn of its loop, under workflows_mutex_
ProcessResults ==
  /\ ~ctl.shutdown
  /\ result_queue # <<>>
  /\ result_queue' = Tail(result_queue)
  /\ LET res == Head(result_queue)
     IN IF Skipped(res)
        THEN UNCHANGED <<wfs, flags, ctl>>
        ELSE /\ wfs' = [wfs EXCEPT ![res.wf] = ApplyResult(@, res)]
             /\ flags' = IF res.success
                         THEN StoreCancelled(flags, ctl.cancelled_flags,
                                             <<res.wf, res.node>>)
                         ELSE flags
             /\ ctl' = [ctl EXCEPT
                          !.latency = Record(@, wfs[res.wf].nodes[res.node].type,
                                             res.tier, Duration),
                          !.workflow_cost[res.wf] = @ + res.cost,
                          !.attempt_start_time = @ \ {<<res.wf, res.node>>},
                          !.workflows_done =
                             IF ApplyResult(wfs[res.wf], res).done
                             THEN @ + 1 ELSE @]
  /\ UNCHANGED <<op, cfg, tiers, tworkers, cpu_queue, io_queue, tthreads>>

\* Run storing shutdown_ without waiting for workflows_done_
RunExit_Early ==
  /\ ~ctl.shutdown
  /\ ctl' = [ctl EXCEPT !.shutdown = TRUE]
  /\ UNCHANGED <<wfs, op, cfg, tiers, tworkers, cpu_queue, io_queue,
                 result_queue, flags, tthreads>>

\* Controller::Run: the loop ends once every workflow is done, after a
\* ProcessResults that emptied the result queue; shutdown_ is stored
RunExit ==
  /\ ~ctl.shutdown
  /\ ctl.workflows_done >= cfg.workflows
  /\ result_queue = <<>>
  /\ ctl' = [ctl EXCEPT !.shutdown = TRUE]
  /\ UNCHANGED <<wfs, op, cfg, tiers, tworkers, cpu_queue, io_queue,
                 result_queue, flags, tthreads>>

\* a destructor that deletes the flags without joining the workers
Destructor_NoJoin ==
  /\ ctl.queues_shutdown
  /\ ~ctl.joined
  /\ ctl' = [ctl EXCEPT
               !.joined = TRUE,
               !.freed = {ctl.cancelled_flags[k] : k \in DOMAIN ctl.cancelled_flags}]
  /\ UNCHANGED <<wfs, op, cfg, tiers, tworkers, cpu_queue, io_queue,
                 result_queue, flags, tthreads>>

\* Controller::~Controller after Run returned: shutdown_ is stored again and
\* the result queue and the local queues are shut down
DestructorShutdown ==
  /\ ctl.shutdown
  /\ ~ctl.queues_shutdown
  /\ ctl' = [ctl EXCEPT !.queues_shutdown = TRUE]
  /\ UNCHANGED <<wfs, op, cfg, tiers, tworkers, cpu_queue, io_queue,
                 result_queue, flags, tthreads>>

\* Controller::~Controller, the rest: the joins of the tier and local workers
\* return once no worker is inside a turn of its loop; then every flag the
\* map holds is deleted
Destructor ==
  /\ ctl.queues_shutdown
  /\ ~ctl.joined
  /\ \A t \in DOMAIN tworkers : tworkers[t] = {}
  /\ ctl' = [ctl EXCEPT
               !.joined = TRUE,
               !.freed = {ctl.cancelled_flags[k] : k \in DOMAIN ctl.cancelled_flags}]
  /\ UNCHANGED <<wfs, op, cfg, tiers, tworkers, cpu_queue, io_queue,
                 result_queue, flags, tthreads>>

Next ==
  \/ SchedulerLoop
  \/ MonitorLoop
  \/ \E t \in TierIds : TierWorkerDequeue(t)
  \/ \E t \in TierIds : TierWorkerFinish(t)
  \/ CpuWorkerPop
  \/ IoWorkerPop
  \/ LocalWorkerFinish
  \/ ProcessResults
  \/ RunExit
  \/ DestructorShutdown
  \/ Destructor

Spec == Init /\ [][Next]_vars

\* The head of a run of two workflows under policy full with hedging: the
\* scheduler, the monitor and the tier workers up to the first result that
\* ProcessResults applies to a node or skips.
HedgedPair == Config(2, "full", TRUE, FALSE, DefaultMaxInFlight, DefaultBudget)

InitHedge == Start(HedgedPair)

BeforeFirstResult ==
  \A w \in DOMAIN wfs : \A i \in DOMAIN wfs[w].nodes :
    ~IsTerminal(wfs[w].nodes[i].state)

HeadSchedulerLoop == BeforeFirstResult /\ SchedulerLoop
HeadMonitorLoop == BeforeFirstResult /\ MonitorLoop
HeadTierWorkerDequeue == BeforeFirstResult /\ \E t \in TierIds : TierWorkerDequeue(t)
HeadTierWorkerFinish == BeforeFirstResult /\ \E t \in TierIds : TierWorkerFinish(t)
HeadProcessResults == BeforeFirstResult /\ ProcessResults

NextHedge ==
  \/ HeadSchedulerLoop
  \/ HeadMonitorLoop
  \/ HeadTierWorkerDequeue
  \/ HeadTierWorkerFinish
  \/ HeadProcessResults

SpecHedge == InitHedge /\ [][NextHedge]_vars

\* ProcessResults on a result it skips (the result of a done workflow or of
\* a node already terminal)
ProcessSkippedResult ==
  /\ result_queue # <<>>
  /\ Skipped(Head(result_queue))
  /\ ProcessResults

\* The threads keep running: Run goes on with its loop and leaves it when its
\* test fails, and a worker inside a turn of its loop ends its sleep and
\* pushes its result.
SpecFair ==
  /\ Init /\ [][Next]_vars
  /\ WF_vars(ProcessSkippedResult)
  /\ WF_vars(RunExit)
  /\ WF_vars(\E t \in TierIds : TierWorkerFinish(t))
  /\ WF_vars(LocalWorkerFinish)

-----------------------------------------------------------------------------
(* SpecSelect: Scheduler::SelectOption called for a provider-backed node   *)
(* in every state of the configuration, the tiers and the latency store.   *)

SelectBudget == 100       \* a budget_per_workflow of 0.01: one slow llm call
SelectDuration == 50      \* a duration_ms below the estimate without samples

Policies == {"fifo_cheapest", "dag_cheapest", "dag_escalation", "full"}

SelectConfigs ==
  {[Config(1, p, TRUE, FALSE, DefaultMaxInFlight, b) EXCEPT !.disable_escalation = e] :
     p \in Policies, b \in {0, SelectBudget, DefaultBudget}, e \in BOOLEAN}

\* the node types whose nodes have a preference list
RoutedTypes == {"Plan", "Embed"}

InitSelect ==
  /\ cfg \in SelectConfigs
  /\ tiers \in {[i \in TierIds |-> [NewTiers[i] EXCEPT !.in_flight = f[i]]] :
                  f \in {g \in [TierIds -> 0..MaxTierCap] :
                           \A i \in TierIds : g[i] <= NewTiers[i].concurrency_cap}}
  /\ ctl = [cancelled_flags |-> <<>>, attempt_start_time |-> {},
            workflow_cost |-> <<0>>, workflows_done |-> 0, shutdown |-> FALSE,
            latency |-> <<>>, hedges |-> 0]
  /\ op = [last |-> "none"]
  /\ wfs = <<>>
  /\ tworkers = <<>>
  /\ cpu_queue = <<>>
  /\ io_queue = <<>>
  /\ result_queue = <<>>
  /\ flags = <<>>
  /\ tthreads = <<>>

\* LatencyEstimateStore::Record as ProcessResults calls it for a result of a
\* tier of the node's provider
CallRecord ==
  /\ \E type \in RoutedTypes, d \in {SelectDuration, Duration} :
       \E k \in DOMAIN PreferenceList(ResourceForType(type)) :
         ctl' = [ctl EXCEPT !.latency =
                   Record(@, type, PreferenceList(ResourceForType(type))[k], d)]
  /\ UNCHANGED <<wfs, op, cfg, tiers, tworkers, cpu_queue, io_queue,
                 result_queue, flags, tthreads>>

\* Scheduler::SelectOption as Dispatch calls it for a node of the type
CallSelectOption ==
  /\ \E type \in RoutedTypes :
       op' = [last |-> "SelectOption", type |-> type,
              is_critical |-> IsCriticalPath(MkNode(type, 0, 0, 0, 0)),
              chosen |-> SelectOption(MkNode(type, 0, 0, 0, 0),
                                      ctl.workflow_cost[1],
                                      IsCriticalPath(MkNode(type, 0, 0, 0, 0)),
                                      ctl.latency)]
  /\ UNCHANGED <<wfs, cfg, tiers, tworkers, cpu_queue, io_queue, result_queue,
                 flags, ctl, tthreads>>

NextSelect ==
  \/ CallRecord
  \/ CallSelectOption

SpecSelect == InitSelect /\ [][NextSelect]_vars

-----------------------------------------------------------------------------
(* Properties of the Workflow state machine                                *)

\* the step s -> t of one node is one the state machine permits; nodes is the
\* graph after the step
PermittedChange(s, t, nodes, i) ==
  /\ t = "Runnable" => DepsSatisfied(nodes, i)
  /\ t = "Queued" => s = "Runnable"
  /\ t = "Running" => s \in {"Queued", "Runnable"}
  /\ t \in {"Succeeded", "Failed"} => s \in {"Runnable", "Queued", "Running"}
  /\ t = "Cancelled" => ~IsTerminal(s)

\* a node whose state the step changes
Changed(i) ==
  /\ i \in DOMAIN wfs[1].nodes
  /\ wfs[1].nodes[i].state # wfs'[1].nodes[i].state

\* C1: every change of a node's state made by a Workflow operation is a
\* permitted transition (Runnable only with all parents Succeeded, Queued only
\* from Runnable, Running only from Queued or Runnable, Succeeded or Failed only
\* from Runnable/Queued/Running, Cancelled only from a non-terminal state), and
\* a node that DAG expansion creates as Runnable has all its parents Succeeded.
C1_PermittedTransitions ==
  [][ /\ \A i \in DOMAIN wfs[1].nodes :
           Changed(i) =>
             PermittedChange(wfs[1].nodes[i].state, wfs'[1].nodes[i].state,
                             wfs'[1].nodes, i)
      /\ \A i \in DOMAIN wfs'[1].nodes \ DOMAIN wfs[1].nodes :
           wfs'[1].nodes[i].state = "Runnable" => DepsSatisfied(wfs'[1].nodes, i)
    ]_vars

\* C1 witness: a graph in which nodes are Running, Succeeded, Failed and
\* Cancelled, and a node behind a parent is Queued (it was promoted to Runnable
\* when its parent succeeded, then queued).
C1_Witness ==
  /\ \A t \in {"Running", "Succeeded", "Failed", "Cancelled"} :
       \E i \in DOMAIN wfs[1].nodes : wfs[1].nodes[i].state = t
  /\ \E i \in DOMAIN wfs[1].nodes :
       /\ wfs[1].nodes[i].state = "Queued"
       /\ wfs[1].nodes[i].deps # {}

\* C2: terminal states are absorbing: a node that is Succeeded, Failed or
\* Cancelled keeps that state through every Workflow operation.
C2_TerminalAbsorbing ==
  [][ \A i \in DOMAIN wfs[1].nodes :
        IsTerminal(wfs[1].nodes[i].state) =>
          wfs'[1].nodes[i].state = wfs[1].nodes[i].state ]_vars

\* C2 witness: Succeeded, Failed and Cancelled nodes exist after a call that
\* returned, with both Cancel/PruneAfterStop calls spent and the workflow done
\* (a DecideNext succeeded and PruneAfterStop ran inside it).
C2_Witness ==
  /\ \A t \in {"Succeeded", "Failed", "Cancelled"} :
       \E i \in DOMAIN wfs[1].nodes : wfs[1].nodes[i].state = t
  /\ op.cancels = MaxCancels
  /\ wfs[1].done

-----------------------------------------------------------------------------
(* Properties of a Tier                                                    *)

\* a step in which worker w completes a dequeue
DequeueSucceeds(w) ==
  tthreads.workers[w].pc # "holding" /\ tthreads'.workers[w].pc = "holding"

\* C3: on a tier shared by the enqueuing threads and the workers,
\* 0 <= in_flight <= concurrency_cap in every state, and a dequeue completes
\* only with a non-empty queue and in_flight below the cap, taking the front
\* of the queue and adding exactly one to in_flight.
C3_InFlightWithinCap ==
  /\ [](tiers[1].in_flight >= 0 /\ tiers[1].in_flight <= tiers[1].concurrency_cap)
  /\ [][ \A w \in WorkerIds :
           DequeueSucceeds(w) =>
             /\ tiers[1].queue # <<>>
             /\ tiers[1].in_flight < tiers[1].concurrency_cap
             /\ tiers'[1].in_flight = tiers[1].in_flight + 1
             /\ tiers'[1].queue = Tail(tiers[1].queue) ]_vars

\* C3 witness: the tier is at its cap with attempts still queued, a worker has
\* just been refused by TryDequeue, and both producers have enqueued.
C3_Witness ==
  /\ tiers[1].in_flight = tiers[1].concurrency_cap
  /\ tiers[1].queue # <<>>
  /\ \E w \in WorkerIds :
       /\ tthreads.workers[w].pc = "idle"
       /\ tthreads.workers[w].call = "TryDequeue"
       /\ tthreads.workers[w].returned
  /\ \A p \in Producers : tthreads.sent[p] > 0

-----------------------------------------------------------------------------
(* Properties of a controller run                                          *)

\* node i of workflow w enters Queued or Running in the step
Admitted(w, i) ==
  /\ wfs'[w].nodes[i].state \in {"Queued", "Running"}
  /\ ~(i \in DOMAIN wfs[w].nodes /\ wfs[w].nodes[i].state \in {"Queued", "Running"})

\* the step is a pass of the scheduler: no result is pushed or popped, no
\* worker takes or ends an attempt, no hedge is launched
SchedulerStep ==
  /\ result_queue' = result_queue
  /\ tworkers' = tworkers
  /\ ctl'.hedges = ctl.hedges
  /\ ctl'.shutdown = ctl.shutdown

\* C4: in every state of a controller run the Queued and Running nodes of the
\* workflows that are not done number at most max_in_flight_global; a node
\* enters Queued or Running only in a scheduler pass, and only while the count
\* is below max_in_flight_global.
C4_GlobalInFlightCap ==
  /\ [](InFlightGlobal(wfs) <= cfg.max_in_flight_global)
  /\ [][ \A w \in DOMAIN wfs : \A i \in DOMAIN wfs'[w].nodes :
           Admitted(w, i) =>
             /\ SchedulerStep
             /\ InFlightGlobal(wfs) < cfg.max_in_flight_global
             /\ InFlightGlobal(wfs') <= cfg.max_in_flight_global ]_vars

\* the cap is reached while a Runnable node of another workflow waits, after
\* a first node has already gone through
C4_Witness ==
  /\ InFlightGlobal(wfs) = cfg.max_in_flight_global
  /\ Scorable # {}
  /\ \E w \in DOMAIN wfs : \E i \in DOMAIN wfs[w].nodes :
       wfs[w].nodes[i].state = "Succeeded"

\* the attempts of node nid of workflow w that are queued on a tier or held
\* by a tier worker
InFlightAttempts(w, nid) ==
  {a \in UNION {tworkers[t] \cup {tiers[t].queue[k] : k \in DOMAIN tiers[t].queue} :
                  t \in TierIds} :
     a.wf = w /\ a.node = nid}

\* the step applies the result at the head of the result queue as a success
AppliesSuccess ==
  /\ result_queue # <<>>
  /\ result_queue' = Tail(result_queue)
  /\ Head(result_queue).success
  /\ ~Skipped(Head(result_queue))

\* C5: when a node has two attempts, the original and a hedge, and the result
\* of either is applied as a success, the cancellation flag of the other
\* attempt, still in flight, is true afterwards.
C5_SiblingFlagSet ==
  [][ AppliesSuccess /\ AttemptsOf(flags, Head(result_queue).wf,
                                   Head(result_queue).node) = 2
      => \A a \in InFlightAttempts(Head(result_queue).wf, Head(result_queue).node) :
           a.attempt # Head(result_queue).attempt => flags'[FlagOf(a)] ]_vars

\* a tier worker ends attempt a in the step
Finishes(t, a) == a \in tworkers[t] /\ a \notin tworkers'[t]

\* C6: a node with an original attempt and a hedge whose first applied result
\* is a success stays Succeeded, and the losing attempt, when it ends after
\* that, produces a result with error "cancelled".
C6_LoserCancelled ==
  [][ \A t \in TierIds : \A a \in tworkers[t] :
        /\ wfs[a.wf].nodes[a.node].state = "Succeeded"
        /\ AttemptsOf(flags, a.wf, a.node) = 2
        => /\ wfs'[a.wf].nodes[a.node].state = "Succeeded"
           /\ Finishes(t, a) =>
                result_queue'[Len(result_queue')].error = "cancelled" ]_vars

\* C7: an attempt the scheduler enqueues on a tier has a price within the
\* budget left of its workflow; with a budget of 0 it enqueues none.
C7_WithinBudget ==
  [][ SchedulerStep =>
        \A t \in TierIds :
          \A k \in (Len(tiers[t].queue) + 1)..Len(tiers'[t].queue) :
            tiers[t].price_per_call <=
              cfg.budget_per_workflow - ctl.workflow_cost[tiers'[t].queue[k].wf] ]_vars

\* C8: under dag_cheapest and fifo_cheapest every attempt queued on a tier or
\* held by a tier worker is on tier 0 of its provider.
C8_CheapestTierOnly ==
  cfg.policy \in {"dag_cheapest", "fifo_cheapest"} =>
    \A t \in TierIds :
      tiers[t].queue # <<>> \/ tworkers[t] # {} => tiers[t].tier_id = 0

\* C10: unless the policy is full and hedging is not disabled, no hedge is
\* launched and every node has at most one attempt.
C10_NoHedgeWhenOff ==
  cfg.policy # "full" \/ cfg.disable_hedging =>
    /\ ctl.hedges = 0
    /\ \A f \in DOMAIN flags : AttemptsOf(flags, f[1], f[2]) <= 1

\* policy full with hedging disabled, a node the scan would hedge is waiting
\* and the tier of the hedge can accept
C10_Witness ==
  /\ cfg.policy = "full"
  /\ cfg.disable_hedging
  /\ \E w \in DOMAIN wfs : \E i \in Stragglers(w) :
       /\ ~wfs[w].done
       /\ can_accept(tiers[PreferenceList(wfs[w].nodes[i].resource_class)[2]])
       /\ \E t \in TierIds : \E a \in tworkers[t] : a.wf = w /\ a.node = i

-----------------------------------------------------------------------------
(* Properties of SelectOption                                              *)

\* the options of the preference list that are within budget and can accept
AcceptableOptions(pref) ==
  {k \in DOMAIN pref :
     Acceptable(pref[k], cfg.budget_per_workflow - ctl.workflow_cost[1])}

\* the candidate of the preference list is worth its extra cost
EscalationWarranted(pref, type) ==
  /\ tiers[pref[2]].price_per_call - tiers[pref[1]].price_per_call > 0
  /\ BenefitMeetsThreshold(
       ECT(ctl.latency, type, pref[1]) - ECT(ctl.latency, type, pref[2]),
       tiers[pref[2]].price_per_call - tiers[pref[1]].price_per_call)

\* C9: with an escalation-permitting policy and a node on the critical path,
\* SelectOption returns the more expensive candidate when it is acceptable,
\* delta_cost > 0 and benefit / delta_cost >= the threshold, and the cheapest
\* acceptable option otherwise.
C9_EscalatesExactlyOnBenefit ==
  /\ op.last = "SelectOption"
  /\ op.is_critical
  /\ cfg.policy \in {"dag_escalation", "full"}
  /\ ~cfg.disable_escalation
  /\ AcceptableOptions(PreferenceList(ResourceForType(op.type))) # {}
  => op.chosen =
       LET pref == PreferenceList(ResourceForType(op.type))
       IN IF 2 \in AcceptableOptions(pref) /\ EscalationWarranted(pref, op.type)
          THEN pref[2]
          ELSE pref[CHOOSE k \in AcceptableOptions(pref) :
                      \A j \in AcceptableOptions(pref) : k <= j]

-----------------------------------------------------------------------------
(* Properties of the workflow graph in a controller run                    *)

\* the nodes of every workflow of the run, as <<workflow, node>>
AllNodes == UNION {{<<w, i>> : i \in DOMAIN wfs[w].nodes} : w \in DOMAIN wfs}

\* C11: in a controller run, where node states change only by Dispatch,
\* ProcessResults and the pruning of a DecideNext stop, every node in a
\* terminal state has all its parents in a terminal state.
C11_TerminalParents ==
  \A x \in AllNodes :
    IsTerminal(wfs[x[1]].nodes[x[2]].state) =>
      \A d \in wfs[x[1]].nodes[x[2]].deps :
        IsTerminal(wfs[x[1]].nodes[d].state)

\* a workflow of two iterations is done: the stop of its second DecideNext
\* pruned, and every node of both iterations is terminal below terminal parents
C11_Witness ==
  /\ cfg.iters = 2
  /\ wfs[1].done
  /\ wfs[1].stop_iter = 1
  /\ \E i \in DOMAIN wfs[1].nodes :
       /\ wfs[1].nodes[i].type = "Aggregate"
       /\ wfs[1].nodes[i].iter = 1
       /\ wfs[1].nodes[i].state = "Succeeded"
       /\ wfs[1].nodes[i].deps # {}

-----------------------------------------------------------------------------
(* Properties of the graph of a Workflow under any sequence of calls       *)

\* deps and children of the nodes name each other
EdgesConsistent(nodes) ==
  \A i \in DOMAIN nodes :
    /\ \A d \in nodes[i].deps : d \in DOMAIN nodes /\ i \in nodes[d].children
    /\ \A c \in nodes[i].children : c \in DOMAIN nodes /\ i \in nodes[c].deps

\* C12: the graph is acyclic: every edge goes from a node to a node created
\* later (parent id < child id), deps and children are consistent, and a call
\* adds edges only towards nodes it creates, removing none.
C12_Acyclic ==
  /\ [](/\ EdgesConsistent(wfs[1].nodes)
        /\ \A i \in DOMAIN wfs[1].nodes : \A d \in wfs[1].nodes[i].deps : d < i)
  /\ [][ \A i \in DOMAIN wfs[1].nodes :
           /\ wfs'[1].nodes[i].deps = wfs[1].nodes[i].deps
           /\ wfs[1].nodes[i].children \subseteq wfs'[1].nodes[i].children
           /\ \A c \in wfs'[1].nodes[i].children \ wfs[1].nodes[i].children :
                c > Len(wfs[1].nodes) ]_vars

\* a DecideNext continued: the Plan of iteration 1 hangs below it and has
\* been expanded: the Aggregate of iteration 1 hangs below that Plan
C12_Witness ==
  /\ \E i \in DOMAIN wfs[1].nodes :
       /\ wfs[1].nodes[i].type = "Plan"
       /\ wfs[1].nodes[i].iter = 1
       /\ wfs[1].nodes[i].deps # {}
       /\ wfs[1].nodes[i].children # {}
  /\ \E i \in DOMAIN wfs[1].nodes :
       /\ wfs[1].nodes[i].type = "Aggregate"
       /\ wfs[1].nodes[i].iter = 1
       /\ \E d \in wfs[1].nodes[i].deps :
            wfs[1].nodes[d].type = "Plan" /\ wfs[1].nodes[d].iter = 1

\* the nodes and the edges of a graph, without the node states
Shape(nodes) ==
  [i \in DOMAIN nodes |-> <<nodes[i].type, nodes[i].iter, nodes[i].deps,
                            nodes[i].children>>]

\* C13: there is at most one Aggregate and at most one DecideNext per
\* iteration of the workflow, and MarkSucceeded called again on a Succeeded
\* Plan adds no node and no edge.
C13_SingleAggregateAndDecide ==
  /\ \A i, j \in DOMAIN wfs[1].nodes :
       /\ wfs[1].nodes[i].type \in {"Aggregate", "DecideNext"}
       /\ wfs[1].nodes[i].type = wfs[1].nodes[j].type
       /\ wfs[1].nodes[i].iter = wfs[1].nodes[j].iter
       => i = j
  /\ \A i \in DOMAIN wfs[1].nodes :
       /\ wfs[1].nodes[i].type = "Plan"
       /\ wfs[1].nodes[i].state = "Succeeded"
       => Shape(MarkSucceeded(wfs[1], i).nodes) = Shape(wfs[1].nodes)

\* the Plans of two iterations are Succeeded and expanded, each iteration
\* with its Aggregate and its DecideNext
C13_Witness ==
  \A k \in {0, 1} :
    /\ \E i \in DOMAIN wfs[1].nodes :
         /\ wfs[1].nodes[i].type = "Plan"
         /\ wfs[1].nodes[i].iter = k
         /\ wfs[1].nodes[i].state = "Succeeded"
    /\ \E i \in DOMAIN wfs[1].nodes :
         wfs[1].nodes[i].type = "Aggregate" /\ wfs[1].nodes[i].iter = k
    /\ \E i \in DOMAIN wfs[1].nodes :
         wfs[1].nodes[i].type = "DecideNext" /\ wfs[1].nodes[i].iter = k

\* the iterations that have been expanded: those with an Aggregate
ExpandedIters(w) ==
  {w.nodes[i].iter : i \in {k \in DOMAIN w.nodes : w.nodes[k].type = "Aggregate"}}

\* C14: at most max_iters iterations are expanded: every node has
\* 0 <= iter <= max_iters - 1, completed_iters <= max_iters, and stop_iter,
\* when set, is at most max_iters - 1.
C14_ItersWithinMax ==
  /\ Cardinality(ExpandedIters(wfs[1])) <= wfs[1].params.max_iters
  /\ \A i \in DOMAIN wfs[1].nodes :
       /\ wfs[1].nodes[i].iter >= 0
       /\ wfs[1].nodes[i].iter <= wfs[1].params.max_iters - 1
  /\ wfs[1].completed_iters <= wfs[1].params.max_iters
  /\ wfs[1].stop_iter # NoStop =>
       wfs[1].stop_iter >= 0 /\ wfs[1].stop_iter <= wfs[1].params.max_iters - 1

\* a workflow of max_iters = 2 ran both iterations and stopped at the last
C14_Witness ==
  /\ wfs[1].params.max_iters = 2
  /\ Cardinality(ExpandedIters(wfs[1])) = 2
  /\ wfs[1].completed_iters = 2
  /\ wfs[1].stop_iter = 1
  /\ wfs[1].done

-----------------------------------------------------------------------------
(* Order of a tier queue                                                   *)

\* C15: a tier queue is FIFO: the queue holds the attempts in the order of
\* their Enqueue calls, a dequeue gives the worker the attempt enqueued
\* earliest among those still queued, and no other step changes the queue
\* except an Enqueue that appends one attempt at the back.
C15_TierFifo ==
  /\ [](\A i, j \in DOMAIN tiers[1].queue :
          i < j => tiers[1].queue[i].seq < tiers[1].queue[j].seq)
  /\ [][ \A w \in WorkerIds :
           DequeueSucceeds(w) =>
             /\ tthreads'.workers[w].out = <<Head(tiers[1].queue)>>
             /\ tiers'[1].queue = Tail(tiers[1].queue)
             /\ \A k \in DOMAIN tiers'[1].queue :
                  tiers'[1].queue[k].seq > Head(tiers[1].queue).seq ]_vars
  /\ [][ (\A w \in WorkerIds : ~DequeueSucceeds(w)) =>
           \/ tiers'[1].queue = tiers[1].queue
           \/ /\ Len(tiers'[1].queue) = Len(tiers[1].queue) + 1
              /\ SubSeq(tiers'[1].queue, 1, Len(tiers[1].queue)) = tiers[1].queue
         ]_vars

\* a worker holds the second attempt enqueued while attempts of both
\* producers, enqueued after it, wait in the queue
C15_Witness ==
  /\ \E w \in WorkerIds :
       /\ tthreads.workers[w].pc = "holding"
       /\ tthreads.workers[w].out # <<>>
       /\ tthreads.workers[w].out[1].seq = 2
  /\ \A p \in Producers :
       \E k \in DOMAIN tiers[1].queue : tiers[1].queue[k].by = p

-----------------------------------------------------------------------------
(* Completion of a controller run                                          *)

\* the workflows that are done
DoneWorkflows(ws) == {w \in DOMAIN ws : ws[w].done}

\* C16: a done flag never goes back to false; workflows_done never decreases,
\* grows by one exactly in the step in which a result makes a workflow done,
\* so it counts the done workflows and never exceeds the number of workflows.
C16_DoneMonotonic ==
  /\ [](/\ ctl.workflows_done = Cardinality(DoneWorkflows(wfs))
        /\ ctl.workflows_done <= cfg.workflows)
  /\ [][ /\ DoneWorkflows(wfs) \subseteq DoneWorkflows(wfs')
         /\ ctl'.workflows_done >= ctl.workflows_done
         /\ ctl'.workflows_done =
              ctl.workflows_done
                + Cardinality(DoneWorkflows(wfs') \ DoneWorkflows(wfs))
         /\ Cardinality(DoneWorkflows(wfs') \ DoneWorkflows(wfs)) <= 1
         /\ DoneWorkflows(wfs') # DoneWorkflows(wfs) =>
              /\ result_queue # <<>>
              /\ result_queue' = Tail(result_queue)
              /\ Head(result_queue).success ]_vars

\* both workflows of a run are done and counted, and the result of a node
\* that was still in flight when its workflow stopped waits in the queue
C16_Witness ==
  /\ cfg.workflows = 2
  /\ ctl.workflows_done = 2
  /\ result_queue # <<>>
  /\ ~IsTerminal(wfs[Head(result_queue).wf].nodes[Head(result_queue).node].state)


-----------------------------------------------------------------------------
(* The sanity run: every executed node succeeds                            *)

NodesPerIter(p) == 3 + 3 * p.pdfs + 2 * p.pdfs * p.subqueries_per_iter

SucceededCount(w) ==
  Cardinality({i \in DOMAIN w.nodes : w.nodes[i].state = "Succeeded"})

\* C17: in the sanity run, for every workload, a workflow that is not done
\* has at least one Runnable node at the top of every turn of the loop (the
\* loop never finds the list empty), and it is done after finitely many
\* turns: every turn adds one Succeeded node, the graph never holds more than
\* max_iters iterations of nodes, so a workflow is done after at most
\* max_iters * (3 + 3*pdfs + 2*pdfs*subqueries) turns.
C17_NoDeadlockAndTerminates ==
  /\ [](~wfs[1].done => SanityRunnable(wfs[1]) # {})
  /\ [](~wfs[1].done => RunnableNodes(wfs[1].nodes) # {})
  /\ [](Len(wfs[1].nodes) <= wfs[1].params.max_iters * NodesPerIter(wfs[1].params))
  /\ [][wfs'[1].id = wfs[1].id
          => SucceededCount(wfs'[1]) = SucceededCount(wfs[1]) + 1]_vars

\* the second workflow of a two-iteration workload is done, and nodes of it
\* were still waiting when it finished
C17_Witness ==
  /\ wfs[1].id = 2
  /\ wfs[1].done
  /\ wfs[1].params.max_iters = 2
  /\ wfs[1].stop_iter = 1
  /\ wfs[1].params.pdfs = 2
  /\ \E i \in DOMAIN wfs[1].nodes : wfs[1].nodes[i].state = "WaitingDeps"

CountOfType(w, type, iter) ==
  Cardinality({i \in DOMAIN w.nodes :
                 w.nodes[i].type = type /\ w.nodes[i].iter = iter})

\* the node types of one iteration and how many of each it holds
TypeCount(p, type) ==
  IF type \in {"Plan", "Aggregate", "DecideNext"} THEN 1
  ELSE IF type \in {"LoadPDF", "Chunk", "Embed"} THEN p.pdfs
  ELSE p.pdfs * p.subqueries_per_iter

\* C18: in the sanity run a workflow that ends done with stop_iter = s holds
\* exactly (s+1) * (3 + 3*pdfs + 2*pdfs*subqueries) nodes, made of the
\* stated number of nodes of each type in each of the iterations 0..s, has
\* completed_iters = s + 1 and no Cancelled node; with pdfs = 1, iters = 1
\* and subqueries = 0 that is 6 nodes, stop_iter = 0 and completed_iters = 1.
C18_NodeCount ==
  wfs[1].done =>
    /\ wfs[1].stop_iter \in 0..(wfs[1].params.max_iters - 1)
    /\ Len(wfs[1].nodes) = (wfs[1].stop_iter + 1) * NodesPerIter(wfs[1].params)
    /\ \A k \in 0..wfs[1].stop_iter :
         \A type \in {"Plan", "LoadPDF", "Chunk", "Embed", "SimilaritySearch",
                       "ExtractEvidence", "Aggregate", "DecideNext"} :
           CountOfType(wfs[1], type, k) = TypeCount(wfs[1].params, type)
    /\ wfs[1].completed_iters = wfs[1].stop_iter + 1
    /\ \A i \in DOMAIN wfs[1].nodes : wfs[1].nodes[i].state # "Cancelled"
    /\ (/\ wfs[1].params.pdfs = 1
        /\ wfs[1].params.max_iters = 1
        /\ wfs[1].params.subqueries_per_iter = 0)
       => /\ Len(wfs[1].nodes) = 6
          /\ wfs[1].stop_iter = 0
          /\ wfs[1].completed_iters = 1

\* a done workflow of two iterations in which a node of the last iteration
\* had not run when the DecideNext node stopped it
C18_Witness ==
  /\ wfs[1].done
  /\ wfs[1].stop_iter = 1
  /\ Len(wfs[1].nodes) = 2 * NodesPerIter(wfs[1].params)
  /\ \E i \in DOMAIN wfs[1].nodes :
        wfs[1].nodes[i].iter = 1 /\ ~IsTerminal(wfs[1].nodes[i].state)

-----------------------------------------------------------------------------
(* Shutdown of a controller run                                            *)

AllDone == \A w \in DOMAIN wfs : wfs[w].done

\* no worker is inside a turn of its loop
WorkersIdle == \A i \in DOMAIN tworkers : tworkers[i] = {}

\* after shutdown_ is stored no loop starts another turn: nothing is
\* dispatched, hedged, dequeued or processed; a worker inside a turn ends it.
\* Of the controller's record only what the destructor writes may change
NoNewTurn ==
  /\ wfs' = wfs
  /\ [ctl' EXCEPT !.queues_shutdown = ctl.queues_shutdown,
                  !.joined = ctl.joined, !.freed = ctl.freed] = ctl
  /\ flags' = flags
  /\ cpu_queue' = cpu_queue
  /\ io_queue' = io_queue
  /\ \A t \in TierIds : tiers'[t].queue = tiers[t].queue
  /\ \A i \in DOMAIN tworkers : tworkers'[i] \subseteq tworkers[i]
  /\ Len(result_queue') >= Len(result_queue)

\* C19: Run stores shutdown_ only when every workflow is done; once every
\* workflow is done shutdown_ is eventually stored; from then on it stays
\* stored, the scheduler loop, the monitor loop and the worker loops start
\* no further turn, and every worker that was inside a turn leaves it, so
\* that every loop has exited.
C19_ShutdownAfterAllDone ==
  /\ [](ctl.shutdown => AllDone)
  /\ [][ctl.shutdown => NoNewTurn]_vars
  /\ AllDone ~> ctl.shutdown
  /\ ctl.shutdown ~> [](ctl.shutdown /\ WorkersIdle)

\* both workflows are done, shutdown_ is stored, and a worker that was inside
\* a turn when it was stored has pushed its result and left its loop
C19_Witness ==
  /\ cfg.workflows = 2
  /\ ctl.shutdown
  /\ WorkersIdle
  /\ result_queue # <<>>

-----------------------------------------------------------------------------
(* A workflow that can make no progress                                    *)

\* workflow w is not done and has no Runnable node, also after a
\* RefreshRunnable, and no node of it is Queued or Running
StuckWorkflow(w) ==
  /\ ~wfs[w].done
  /\ RunnableNodes(RefreshRunnable(wfs[w].nodes)) = {}
  /\ \A i \in DOMAIN wfs[w].nodes :
        wfs[w].nodes[i].state \notin {"Runnable", "Queued", "Running"}

\* C20: a controller run does not go on waiting for a workflow that is not
\* done and has no Runnable, Queued or Running node: whenever a workflow is
\* in that condition Run has left its wait loop.  (Leaving the loop is the
\* only way Run has to report anything: it neither throws nor records an
\* error while it waits.)
C20_StuckIsSurfaced ==
  \A w \in DOMAIN wfs : StuckWorkflow(w) => ctl.shutdown

-----------------------------------------------------------------------------
(* Refused transitions                                                     *)

MarkTargets == {"Queued", "Running", "Succeeded", "Failed"}

\* the transitions the statement lists, read as written
IllegalAsListed(nodes, nid, next) ==
  \/ nid \notin DOMAIN nodes
  \/ /\ nid \in DOMAIN nodes
     /\ \/ next = "Queued" /\ nodes[nid].state # "Runnable"
        \/ next = "Running" /\ nodes[nid].state \notin {"Queued", "Runnable"}
        \/ next \in {"Succeeded", "Failed"} /\ nodes[nid].state = "WaitingDeps"
        \/ IsTerminal(nodes[nid].state) /\ nodes[nid].state # next

\* the same transitions without the calls that ask for the state the node
\* is already in
IllegalChange(nodes, nid, next) ==
  /\ IllegalAsListed(nodes, nid, next)
  /\ nid \in DOMAIN nodes => nodes[nid].state # next

\* C21 (as stated): every listed call raises an error, MarkQueued on any
\* node that is not Runnable and MarkRunning on any node that is neither
\* Queued nor Runnable included.
C21_IllegalRaises ==
  \A nid \in NodeIds : \A next \in MarkTargets :
    IllegalAsListed(wfs[1].nodes, nid, next)
      => SetStateThrows(wfs[1].nodes, nid, next)

\* C21 (amended): a Mark* call raises an error exactly when the node id is
\* unknown or the call asks for a state other than the node's own state and
\* is one of the listed transitions; a call that raised an error left the
\* workflow (node states, graph, done, stop_iter, completed_iters) unchanged.
\* A call that asks for the state the node is already in returns without an
\* error.
C21_IllegalChangeRaises ==
  /\ [](\A nid \in NodeIds : \A next \in MarkTargets :
          IllegalChange(wfs[1].nodes, nid, next)
            <=> SetStateThrows(wfs[1].nodes, nid, next))
  /\ [][op'.last = "threw" => wfs' = wfs]_vars

\* a call has just been refused on a graph that holds Succeeded, Queued,
\* Running and WaitingDeps nodes
C21_Witness ==
  /\ op.last = "threw"
  /\ \A st \in {"Succeeded", "Queued", "Running", "WaitingDeps"} :
       \E i \in DOMAIN wfs[1].nodes : wfs[1].nodes[i].state = st

-----------------------------------------------------------------------------
(* No retry                                                                *)

\* the entries a step appended to a queue
Appended(old, new) == {new[k] : k \in (Len(old) + 1)..Len(new)}

\* the tasks and attempts of node x that a step put on the local queues and
\* on the tier queues
NewDispatches(x) ==
  {e \in Appended(cpu_queue, cpu_queue') \cup Appended(io_queue, io_queue')
          \cup UNION {Appended(tiers[t].queue, tiers'[t].queue) : t \in TierIds} :
     e.wf = x[1] /\ e.node = x[2]}

\* the step applies the result at the head of the result queue, a failure
AppliesFailure ==
  /\ result_queue # <<>>
  /\ result_queue' = Tail(result_queue)
  /\ ~Head(result_queue).success
  /\ ~Skipped(Head(result_queue))

\* C22: over a controller run a node that has left Runnable (it is Queued,
\* Running or terminal) is never Runnable or WaitingDeps again and never
\* becomes Queued a second time; a pass of the scheduler enqueues one task or
\* attempt for each node it moves from Runnable to Queued and nothing for any
\* other node; a result with error failed, timeout or cancelled that is
\* applied leaves its node terminal.  So each node is dispatched at most
\* once and never after a failure.
C22_NoRetry ==
  /\ [][\A x \in AllNodes :
         /\ wfs[x[1]].nodes[x[2]].state \notin {"WaitingDeps", "Runnable"}
              => wfs'[x[1]].nodes[x[2]].state \notin {"WaitingDeps", "Runnable"}
         /\ IsTerminal(wfs[x[1]].nodes[x[2]].state)
              => wfs'[x[1]].nodes[x[2]].state = wfs[x[1]].nodes[x[2]].state
         /\ wfs'[x[1]].nodes[x[2]].state = "Queued"
              => wfs[x[1]].nodes[x[2]].state \in {"Runnable", "Queued"}]_vars
  /\ [][SchedulerStep =>
         \A x \in AllNodes :
           Cardinality(NewDispatches(x)) =
             IF /\ wfs[x[1]].nodes[x[2]].state = "Runnable"
                /\ wfs'[x[1]].nodes[x[2]].state = "Queued"
             THEN 1 ELSE 0]_vars
  /\ [][AppliesFailure =>
         IsTerminal(wfs'[Head(result_queue).wf].nodes[Head(result_queue).node].state)]_vars

\* a node of workflow 1 has Failed, and the scheduler has dispatched nodes of
\* workflow 2 that are Queued or have Succeeded
C22_Witness ==
  /\ cfg.workflows = 2
  /\ \E i \in DOMAIN wfs[1].nodes : wfs[1].nodes[i].state = "Failed"
  /\ \E i \in DOMAIN wfs[2].nodes : wfs[2].nodes[i].state = "Succeeded"
  /\ \E i \in DOMAIN wfs[2].nodes : wfs[2].nodes[i].state = "Queued"

-----------------------------------------------------------------------------
(* RefreshRunnable                                                         *)

\* The node maps RefreshRunnable is called on: the workflow as a public
\* operation left it, and what MarkSucceeded, MarkFailed and Cancel hand to
\* it after their own change of one node's state.
RefreshInputs ==
  {wfs[1].nodes}
  \cup {SetState(wfs[1].nodes, nid, next) :
          nid \in {i \in DOMAIN wfs[1].nodes :
                     wfs[1].nodes[i].state \in {"Runnable", "Queued", "Running"}},
          next \in {"Succeeded", "Failed", "Cancelled"}}

\* C23: for every node map RefreshRunnable is called on, a second call right
\* after the first leaves the node states of the first call and reports no
\* newly runnable node.
C23_RefreshIdempotent ==
  \A nodes \in RefreshInputs :
    /\ RefreshRunnable(RefreshRunnable(nodes)) = RefreshRunnable(nodes)
    /\ NewlyRunnable(RefreshRunnable(nodes)) = {}

\* a first call that makes a node newly Runnable and leaves another node
\* WaitingDeps
C23_Witness ==
  \E nodes \in RefreshInputs :
    /\ NewlyRunnable(nodes) # {}
    /\ RefreshRunnable(nodes) # nodes
    /\ \E i \in DOMAIN nodes : RefreshRunnable(nodes)[i].state = "WaitingDeps"

-----------------------------------------------------------------------------
(* The decisions of DecideNext                                             *)

\* what the generator gives a node when it creates it
NodeCore(n) ==
  <<n.type, n.iter, n.pdf_idx, n.subquery_idx, n.deps, n.evidence_count_est>>

\* the run of the same workload and workflow id in which every node succeeds
\* at once, in the order of the node ids
RefOf(w) == SanityResult[<<w.params, w.id>>]

DecideIters(w) ==
  {w.nodes[i].iter : i \in {j \in DOMAIN w.nodes : w.nodes[j].type = "DecideNext"}}

\* C24: in a controller run, whatever the order in which the nodes complete,
\* the outcomes of the attempts, the tiers and the hedges, every workflow
\* takes at every iteration the decision that the run of the same
\* (seed, workflow id, pdfs, subqueries, max_iters) takes in which every node
\* succeeds in id order: its graph is at every moment an initial part of
\* the graph of that run, the decision computed for each of its iterations
\* is the same, and once done it has the same stop_iter and the same graph.
C24_DecisionDeterministic ==
  \A w \in DOMAIN wfs :
    /\ Len(wfs[w].nodes) <= Len(RefOf(wfs[w]).nodes)
    /\ \A i \in DOMAIN wfs[w].nodes :
         /\ NodeCore(wfs[w].nodes[i]) = NodeCore(RefOf(wfs[w]).nodes[i])
         /\ wfs[w].nodes[i].children \subseteq RefOf(wfs[w]).nodes[i].children
    /\ \A k \in DecideIters(wfs[w]) :
         ComputeDecideAction(wfs[w], k) = ComputeDecideAction(RefOf(wfs[w]), k)
    /\ wfs[w].done =>
         /\ wfs[w].stop_iter = RefOf(wfs[w]).stop_iter
         /\ Shape(wfs[w].nodes) = Shape(RefOf(wfs[w]).nodes)

\* a workflow stopped at its second iteration while a node of its first
\* iteration had not completed
C24_Witness ==
  /\ cfg.iters = 2
  /\ wfs[1].done
  /\ wfs[1].stop_iter = 1
  /\ \E i \in DOMAIN wfs[1].nodes :
        wfs[1].nodes[i].iter = 0 /\ ~IsTerminal(wfs[1].nodes[i].state)

\* a workflow with subqueries stopped before max_iters by the evidence of
\* its first iteration
C24_WitnessEvidence ==
  /\ cfg.iters = 2
  /\ cfg.subqueries = 1
  /\ wfs[1].done
  /\ wfs[1].stop_iter = 0

-----------------------------------------------------------------------------
(* C25. Hedges of one monitor pass                                         *)

\* C25: a pass of the monitor launches at most one hedge, over all workflows
\* and nodes
C25_OneHedgePerPass == [][ctl'.hedges <= ctl.hedges + 1]_vars

-----------------------------------------------------------------------------
(* C26. Attempts of a node outstanding at the same time                    *)

\* the attempts of node nid of workflow w that wait in a tier queue or that a
\* tier worker executes
OutstandingAttempts(w, nid) ==
  {a \in UNION {{tiers[t].queue[k] : k \in DOMAIN tiers[t].queue} \cup tworkers[t] :
                  t \in TierIds} :
     a.wf = w /\ a.node = nid}

\* C26: at any moment a node has at most two attempts enqueued or executing,
\* the original and one hedge
C26_AtMostOneHedgeOutstanding ==
  \A w \in DOMAIN wfs : \A nid \in DOMAIN wfs[w].nodes :
    Cardinality(OutstandingAttempts(w, nid)) <= 2

-----------------------------------------------------------------------------
(* C27. What marking a DecideNext node Succeeded does                      *)

\* the DecideNext nodes that the step marks Succeeded
DecidedNow ==
  {d \in DOMAIN wfs[1].nodes :
     /\ wfs[1].nodes[d].type = "DecideNext"
     /\ wfs[1].nodes[d].state # "Succeeded"
     /\ wfs'[1].nodes[d].state = "Succeeded"}

\* the step adds one node: a Runnable Plan of iteration k + 1 under d alone
AddsPlanUnder(d, k) ==
  /\ Len(wfs'[1].nodes) = Len(wfs[1].nodes) + 1
  /\ wfs'[1].nodes[Len(wfs'[1].nodes)].type = "Plan"
  /\ wfs'[1].nodes[Len(wfs'[1].nodes)].iter = k + 1
  /\ wfs'[1].nodes[Len(wfs'[1].nodes)].deps = {d}
  /\ wfs'[1].nodes[Len(wfs'[1].nodes)].state = "Runnable"
  /\ Len(wfs'[1].nodes) \in wfs'[1].nodes[d].children

DecideEffect(d, k) ==
  /\ ComputeDecideAction(wfs[1], k) = "Stop" =>
        /\ wfs'[1].done
        /\ wfs'[1].stop_iter = k
        /\ Len(wfs'[1].nodes) = Len(wfs[1].nodes)
  /\ ComputeDecideAction(wfs[1], k) = "Continue" =>
        /\ AddsPlanUnder(d, k)
        /\ ~wfs'[1].done
  /\ wfs'[1].completed_iters >= k + 1

LastIterationStops ==
  \A d \in DOMAIN wfs[1].nodes :
    wfs[1].nodes[d].iter + 1 >= wfs[1].params.max_iters =>
      ComputeDecideAction(wfs[1], wfs[1].nodes[d].iter) = "Stop"

DoneOnlyByStop ==
  wfs'[1].done # wfs[1].done =>
    /\ wfs'[1].done
    /\ \E d \in DecidedNow : ComputeDecideAction(wfs[1], wfs[1].nodes[d].iter) = "Stop"

\* C27: when a DecideNext node of iteration k is marked Succeeded, a Stop
\* decision makes the workflow done with stop_iter = k and adds no node, a
\* Continue decision adds exactly one Plan of iteration k + 1, Runnable, under
\* that DecideNext alone, and done is false afterwards; completed_iters is at
\* least k + 1; the decision is Stop when k + 1 >= max_iters; and done
\* becomes true in no other way
C27_DecideNextSucceeded ==
  /\ [][\A d \in DecidedNow : DecideEffect(d, wfs[1].nodes[d].iter)]_vars
  /\ []LastIterationStops
  /\ [][DoneOnlyByStop]_vars

C27_Witness ==
  /\ ~wfs[1].done
  /\ wfs[1].completed_iters >= 1
  /\ \E d, q \in DOMAIN wfs[1].nodes :
       /\ wfs[1].nodes[d].type = "DecideNext"
       /\ wfs[1].nodes[d].state = "Succeeded"
       /\ wfs[1].nodes[q].type = "Plan"
       /\ wfs[1].nodes[q].iter = wfs[1].nodes[d].iter + 1
       /\ wfs[1].nodes[q].deps = {d}
       /\ wfs[1].nodes[q].state = "Runnable"

-----------------------------------------------------------------------------
(* C28. Results that arrive too late                                       *)

\* the result is of a workflow already done or of a node already terminal
LateResult(res) ==
  \/ wfs[res.wf].done
  \/ wfs[res.wf].nodes[res.node].state \in {"Succeeded", "Failed", "Cancelled"}

\* ProcessResults takes the front result in this step
TakesFrontResult ==
  /\ result_queue # <<>>
  /\ result_queue' = Tail(result_queue)

\* C28: when ProcessResults takes a result of a done workflow or of a terminal
\* node, nothing but the result queue changes: the workflows (node states and
\* graphs), workflow_cost, the latency store, workflows_done, the dispatch
\* times and the cancellation flags stay as they are
C28_LateResultIgnored ==
  [][TakesFrontResult /\ LateResult(Head(result_queue)) =>
       UNCHANGED <<wfs, ctl, flags, tiers, tworkers, cpu_queue, io_queue>>]_vars

\* both attempts of a hedged node have been processed: the second of them came
\* for a node already terminal
C28_Witness ==
  \E w \in DOMAIN wfs : \E nid \in DOMAIN wfs[w].nodes :
    /\ <<w, nid, 1>> \in DOMAIN flags
    /\ IsTerminal(wfs[w].nodes[nid].state)
    /\ OutstandingAttempts(w, nid) = {}
    /\ \A k \in DOMAIN result_queue :
         ~(result_queue[k].wf = w /\ result_queue[k].node = nid)
    /\ ~ctl.shutdown

-----------------------------------------------------------------------------
(* C29. A Failed or Cancelled node blocks its descendants                  *)

RECURSIVE ChildrenClosure(_, _)
ChildrenClosure(nodes, S) ==
  IF UNION {nodes[i].children : i \in S} \subseteq S THEN S
  ELSE ChildrenClosure(nodes, S \cup UNION {nodes[i].children : i \in S})

\* the nodes reached from nid along children edges
Descendants(nodes, nid) == ChildrenClosure(nodes, nodes[nid].children)

\* C29: while a node is Failed or Cancelled (and it stays so, being terminal)
\* each of its descendants is WaitingDeps or Cancelled: none is or becomes
\* Runnable, Queued, Running or Succeeded, and a descendant leaves
\* WaitingDeps only by being cancelled
C29_FailedBlocksDescendants ==
  /\ [](\A a \in DOMAIN wfs[1].nodes :
          wfs[1].nodes[a].state \in {"Failed", "Cancelled"} =>
            \A d \in Descendants(wfs[1].nodes, a) :
              wfs[1].nodes[d].state \in {"WaitingDeps", "Cancelled"})
  /\ [][\A a \in DOMAIN wfs[1].nodes :
          wfs[1].nodes[a].state \in {"Failed", "Cancelled"} =>
            wfs'[1].nodes[a].state = wfs[1].nodes[a].state]_vars

\* a Failed node with a descendant two edges or more away that waits, while
\* other nodes have gone on to succeed after it
C29_Witness ==
  \E a \in DOMAIN wfs[1].nodes :
    /\ wfs[1].nodes[a].state = "Failed"
    /\ \E d \in Descendants(wfs[1].nodes, a) \ wfs[1].nodes[a].children :
         wfs[1].nodes[d].state = "WaitingDeps"
    /\ \E b \in DOMAIN wfs[1].nodes :
         b > a /\ wfs[1].nodes[b].state = "Succeeded"

-----------------------------------------------------------------------------
(* C30. Runnable and WaitingDeps agree with the parents                    *)

AllParentsSucceeded(nodes, i) ==
  \A d \in nodes[i].deps : nodes[d].state = "Succeeded"

\* C30: after construction and after every public operation of a Workflow a
\* Runnable node has all its parents Succeeded and a WaitingDeps node has a
\* parent that is not Succeeded; RefreshRunnable leaves every Queued, Running
\* and terminal node as it finds it
C30_RunnableIffParentsSucceeded ==
  /\ \A i \in DOMAIN wfs[1].nodes :
       /\ wfs[1].nodes[i].state = "Runnable" => AllParentsSucceeded(wfs[1].nodes, i)
       /\ wfs[1].nodes[i].state = "WaitingDeps" => ~AllParentsSucceeded(wfs[1].nodes, i)
  /\ \A nodes \in RefreshInputs : \A i \in DOMAIN nodes :
       nodes[i].state \in {"Queued", "Running", "Succeeded", "Failed", "Cancelled"} =>
         RefreshRunnable(nodes)[i] = nodes[i]

\* a Runnable node with two parents or more, all Succeeded, beside a node that
\* waits for a parent
C30_Witness ==
  /\ \E i \in DOMAIN wfs[1].nodes :
       /\ wfs[1].nodes[i].state = "Runnable"
       /\ Cardinality(wfs[1].nodes[i].deps) >= 2
       /\ AllParentsSucceeded(wfs[1].nodes, i)
  /\ \E i \in DOMAIN wfs[1].nodes :
       /\ wfs[1].nodes[i].state = "WaitingDeps"
       /\ wfs[1].nodes[i].deps # {}

-----------------------------------------------------------------------------
(* C31. The lifetime of the cancellation flags                             *)

\* the flags that tier workers hold a pointer to, in an attempt they execute
HeldFlags == {FlagOf(a) : a \in UNION {tworkers[t] : t \in TierIds}}

\* the flags whose entry in cancelled_flags_ a later attempt of the node took
OverwrittenFlags ==
  DOMAIN flags \ {ctl.cancelled_flags[k] : k \in DOMAIN ctl.cancelled_flags}

\* C31: no flag is freed while a tier worker holds a pointer to it; flags are
\* freed only once every tier worker has been joined, and a flag whose map
\* entry a later hedge overwrote is not freed before that either
C31_FlagOutlivesWorkers ==
  /\ HeldFlags \cap ctl.freed = {}
  /\ ctl.freed \subseteq DOMAIN flags
  /\ ctl.freed # {} => ctl.joined /\ \A t \in TierIds : tworkers[t] = {}
  /\ ~ctl.joined => ctl.freed = {}
  /\ OverwrittenFlags \cap ctl.freed = {}

\* the destructor has run in a run that hedged: flags were freed, and the flag
\* of the first attempt of a hedged node, overwritten in the map, was not
C31_Witness ==
  /\ ctl.joined
  /\ ctl.freed # {}
  /\ OverwrittenFlags # {}

-----------------------------------------------------------------------------
(* SpecBucket: a TokenBucket (provider.cpp) and the threads that call      *)
(* Acquire on it. Tokens are counted in whole units and time in ticks;     *)
(* tiers holds the bucket and tthreads the callers. since_refill is        *)
(* now - last_refill_, kept only up to the time that fills any bucket.     *)

MaxRate == 2         \* rate_per_sec ranges over 1..MaxRate (tokens per tick)
MaxCapacity == 2     \* capacity ranges over 1..MaxCapacity
MaxAsk == 3          \* Acquire is called with -1..MaxAsk tokens
Callers == 1..2      \* the threads that call Acquire

\* the ticks after which Refill fills the bucket whatever it held
FullTime(b) == (b.capacity + b.rate_per_sec - 1) \div b.rate_per_sec

\* TokenBucket::TokenBucket
NewBucket(rate_per_sec, capacity) ==
  [rate_per_sec |-> rate_per_sec, capacity |-> capacity, tokens |-> capacity,
   since_refill |-> 0]

\* TokenBucket::Refill
Refill(b) ==
  [b EXCEPT !.tokens = Min(b.capacity, b.tokens + b.since_refill * b.rate_per_sec),
            !.since_refill = 0]

\* a test of the loop that gives up waiting once the bucket was refilled
Enough_AfterRefill(b, n) == TRUE

\* the test tokens_ >= tokens of the loop and of the wait predicate
Enough(b, n) == b.tokens >= n

\* tokens_ -= tokens
Take(b, n) == [b EXCEPT !.tokens = @ - n]

InitBucket ==
  /\ \E r \in 1..MaxRate, c \in 1..MaxCapacity : tiers = NewBucket(r, c)
  /\ tthreads = [c \in Callers |-> [pc |-> "idle", n |-> 0]]
  /\ op = [last |-> "none", caller |-> 0, n |-> 0]
  /\ cfg = <<>>
  /\ wfs = <<>>
  /\ tworkers = <<>>
  /\ cpu_queue = <<>>
  /\ io_queue = <<>>
  /\ result_queue = <<>>
  /\ flags = <<>>
  /\ ctl = <<>>

BucketFrame ==
  UNCHANGED <<wfs, cfg, tworkers, cpu_queue, io_queue, result_queue, flags, ctl>>

\* steady_clock advances by one tick
BucketTick ==
  /\ tiers.since_refill < FullTime(tiers)
  /\ tiers' = [tiers EXCEPT !.since_refill = @ + 1]
  /\ UNCHANGED <<op, tthreads>>
  /\ BucketFrame

\* Acquire(n) with n <= 0 returns before it takes the mutex
AcquireNothing ==
  /\ \E c \in Callers, n \in -1..0 :
       /\ tthreads[c].pc = "idle"
       /\ op' = [last |-> "returned", caller |-> c, n |-> n]
  /\ UNCHANGED <<tiers, tthreads>>
  /\ BucketFrame

\* Acquire(n) with n > 0, from the lock to the return or to the wait: the loop
\* test, Refill, the test again, and the predicate of wait_for
AcquireEnter ==
  /\ \E c \in Callers, n \in 1..MaxAsk :
       /\ tthreads[c].pc = "idle"
       /\ IF Enough(tiers, n)
          THEN /\ tiers' = Take(tiers, n)
               /\ op' = [last |-> "returned", caller |-> c, n |-> n]
               /\ UNCHANGED tthreads
          ELSE IF Enough(Refill(tiers), n)
          THEN /\ tiers' = Take(Refill(tiers), n)
               /\ op' = [last |-> "returned", caller |-> c, n |-> n]
               /\ UNCHANGED tthreads
          ELSE /\ tiers' = Refill(tiers)
               /\ op' = [last |-> "waits", caller |-> c, n |-> n]
               /\ tthreads' = [tthreads EXCEPT ![c] = [pc |-> "waiting", n |-> n]]
  /\ BucketFrame

\* a caller inside wait_for wakes (the timeout, or a spurious wakeup), takes
\* the mutex and evaluates the predicate: Refill, then the test; it returns
\* from Acquire or goes on waiting
AcquireWake ==
  /\ \E c \in Callers :
       /\ tthreads[c].pc = "waiting"
       /\ IF Enough(Refill(tiers), tthreads[c].n)
          THEN /\ tiers' = Take(Refill(tiers), tthreads[c].n)
               /\ op' = [last |-> "returned", caller |-> c, n |-> tthreads[c].n]
               /\ tthreads' = [tthreads EXCEPT ![c] = [pc |-> "idle", n |-> 0]]
          ELSE /\ tiers' = Refill(tiers)
               /\ op' = [last |-> "waits", caller |-> c, n |-> tthreads[c].n]
               /\ UNCHANGED tthreads
  /\ BucketFrame

NextBucket ==
  \/ BucketTick
  \/ AcquireNothing
  \/ AcquireEnter
  \/ AcquireWake

SpecBucket == InitBucket /\ [][NextBucket]_vars

-----------------------------------------------------------------------------
(* C32. The token bucket under concurrent Acquire calls                    *)

\* the step is a return of Acquire
AcquireReturns == op' # op /\ op'.last = "returned"

\* C32: the tokens stay within 0..capacity; a call Acquire(n) with n > 0
\* returns only at a moment when the bucket holds n tokens or more (what it
\* held, or what Refill makes of it at that moment) and takes exactly n; a
\* call with n <= 0 returns at once and leaves the bucket as it is; a call
\* ends by returning or goes on waiting, it never fails
C32_TokensWithinBounds ==
  /\ [](0 <= tiers.tokens /\ tiers.tokens <= tiers.capacity)
  /\ [](op.last \in {"none", "returned", "waits"})
  /\ [][AcquireReturns /\ op'.n > 0 =>
          /\ tiers'.tokens >= 0
          /\ \/ tiers'.tokens + op'.n = tiers.tokens
             \/ tiers'.tokens + op'.n =
                  Min(tiers.capacity, tiers.tokens + tiers.since_refill * tiers.rate_per_sec)]_vars
  /\ [][AcquireReturns /\ op'.n <= 0 => UNCHANGED <<tiers, tthreads>>]_vars
  /\ [][op' # op /\ op'.last = "waits" => tiers'.tokens < op'.n]_vars

\* a call of two tokens has just returned and emptied a bucket of capacity
\* two while another caller waits in wait_for
C32_Witness ==
  /\ op.last = "returned"
  /\ op.n = 2
  /\ tiers.capacity = 2
  /\ tiers.tokens = 0
  /\ \E c \in Callers : tthreads[c].pc = "waiting"

-----------------------------------------------------------------------------
(* C33. Acquire returns after a bounded wait                               *)

\* C33: a call Acquire(n), n > 0, does not wait longer than capacity /
\* rate_per_sec: when a caller evaluates its test on a bucket that Refill has
\* filled to capacity (all that any wait can give it) the call returns, so the
\* caller does not go on waiting in front of a full bucket
C33_AcquireWaitBounded ==
  [][op' # op /\ op'.last = "waits" => tiers'.tokens < tiers'.capacity]_vars

-----------------------------------------------------------------------------
(* SpecSampler: the LatencySampler (provider.cpp), the local service time  *)
(* of worker.cpp and the outcome a tier worker makes of a sample. Times    *)
(* are whole milliseconds, probabilities are percents, and a draw of the   *)
(* generator is an input; op holds the call and what it returned.          *)

MaxRaw == 3          \* the distribution draws a raw time in 0..MaxRaw
MaxMultiplier == 2   \* tail_multiplier ranges over 1..MaxMultiplier
MaxTimeout == 2      \* timeout_ms ranges over 0..MaxTimeout
Percents == {0, 50, 100}     \* the probabilities of a config
Uniform01 == {25, 75}        \* the draws of Uniform01, in percents

\* SeededRng::Bernoulli with the draw u of Uniform01
Bernoulli(p, u) == IF p <= 0 THEN FALSE ELSE IF p >= 100 THEN TRUE ELSE u < p

\* a sampler without the branch for tail_prob == 0
SampleServiceTime_TailOnDraw(raw, tail_prob, tail_multiplier, u) ==
  Max(1, IF tail_prob > 0 /\ Bernoulli(tail_prob, u)
         THEN raw * tail_multiplier ELSE raw)

\* LatencySampler::SampleServiceTime after the draw raw of the distribution
SampleServiceTime(raw, tail_prob, tail_multiplier, u) ==
  Max(1, IF tail_prob > 0 /\ Bernoulli(tail_prob, u)
         THEN raw * tail_multiplier
         ELSE IF tail_prob = 0 /\ tail_multiplier # 1
         THEN raw * tail_multiplier
         ELSE raw)

\* SampleLocalServiceTime of worker.cpp after the draw raw
SampleLocalServiceTime(raw, tail_prob, tail_multiplier, u) ==
  Max(1, IF tail_prob > 0 /\ Bernoulli(tail_prob, u)
         THEN raw * tail_multiplier ELSE raw)

\* a Sample that goes on to the timeout test after a failure draw
Sample_TimeoutAfterFailure(service_time_ms, timeout_ms, p_fail, u) ==
  [service_time_ms |-> IF timeout_ms > 0 /\ service_time_ms > timeout_ms
                       THEN timeout_ms ELSE service_time_ms,
   failed |-> Bernoulli(p_fail, u),
   timeout |-> timeout_ms > 0 /\ service_time_ms > timeout_ms]

\* LatencySampler::Sample on the service time that SampleServiceTime returned
Sample(service_time_ms, timeout_ms, p_fail, u) ==
  IF Bernoulli(p_fail, u)
  THEN [service_time_ms |-> service_time_ms, failed |-> TRUE, timeout |-> FALSE]
  ELSE IF timeout_ms > 0 /\ service_time_ms > timeout_ms
  THEN [service_time_ms |-> timeout_ms, failed |-> FALSE, timeout |-> TRUE]
  ELSE [service_time_ms |-> service_time_ms, failed |-> FALSE, timeout |-> FALSE]

\* TierWorkerLoop: success and error of the result, from what CancellableSleep
\* returned and the sample
WorkerOutcome(cancelled, sample) ==
  IF cancelled THEN [success |-> FALSE, error |-> "cancelled"]
  ELSE IF sample.failed THEN [success |-> FALSE, error |-> "failed"]
  ELSE IF sample.timeout THEN [success |-> FALSE, error |-> "timeout"]
  ELSE [success |-> TRUE, error |-> ""]

NoSamplerCall ==
  [last |-> "none", raw |-> 0, tail_prob |-> 0, tail_multiplier |-> 1, u_tail |-> 25,
   timeout_ms |-> 0, p_fail |-> 0, u_fail |-> 25, cancelled |-> FALSE,
   service_time_ms |-> 0,
   sample |-> [service_time_ms |-> 0, failed |-> FALSE, timeout |-> FALSE],
   outcome |-> [success |-> FALSE, error |-> ""]]

InitSampler ==
  /\ op = NoSamplerCall
  /\ NoController
  /\ wfs = <<>>

SamplerFrame ==
  UNCHANGED <<wfs, cfg, tiers, tworkers, cpu_queue, io_queue, result_queue,
              flags, ctl, tthreads>>

\* a call of LatencySampler::SampleServiceTime
CallSampleServiceTime ==
  /\ \E raw \in 0..MaxRaw, tail_prob \in Percents,
        tail_multiplier \in 1..MaxMultiplier, u \in Uniform01 :
       op' = [NoSamplerCall EXCEPT
                !.last = "SampleServiceTime", !.raw = raw, !.tail_prob = tail_prob,
                !.tail_multiplier = tail_multiplier, !.u_tail = u,
                !.service_time_ms =
                   SampleServiceTime(raw, tail_prob, tail_multiplier, u)]
  /\ SamplerFrame

\* a call of SampleLocalServiceTime by a local worker
CallSampleLocalServiceTime ==
  /\ \E raw \in 0..MaxRaw, tail_prob \in Percents,
        tail_multiplier \in 1..MaxMultiplier, u \in Uniform01 :
       op' = [NoSamplerCall EXCEPT
                !.last = "SampleLocalServiceTime", !.raw = raw,
                !.tail_prob = tail_prob,
                !.tail_multiplier = tail_multiplier, !.u_tail = u,
                !.service_time_ms =
                   SampleLocalServiceTime(raw, tail_prob, tail_multiplier, u)]
  /\ SamplerFrame

\* a turn of TierWorkerLoop from sampler->Sample to the result it pushes
CallSample ==
  /\ \E raw \in 0..MaxRaw, tail_prob \in Percents,
        tail_multiplier \in 1..MaxMultiplier, u_tail \in Uniform01,
        timeout_ms \in 0..MaxTimeout, p_fail \in Percents, u_fail \in Uniform01,
        cancelled \in BOOLEAN :
       op' = [last |-> "Sample", raw |-> raw, tail_prob |-> tail_prob,
              tail_multiplier |-> tail_multiplier, u_tail |-> u_tail,
              timeout_ms |-> timeout_ms, p_fail |-> p_fail, u_fail |-> u_fail,
              cancelled |-> cancelled,
              service_time_ms |->
                 SampleServiceTime(raw, tail_prob, tail_multiplier, u_tail),
              sample |->
                 Sample(SampleServiceTime(raw, tail_prob, tail_multiplier, u_tail),
                        timeout_ms, p_fail, u_fail),
              outcome |->
                 WorkerOutcome(cancelled,
                   Sample(SampleServiceTime(raw, tail_prob, tail_multiplier, u_tail),
                          timeout_ms, p_fail, u_fail))]
  /\ SamplerFrame

NextSampler ==
  \/ CallSampleServiceTime
  \/ CallSampleLocalServiceTime
  \/ CallSample

SpecSampler == InitSampler /\ [][NextSampler]_vars

-----------------------------------------------------------------------------
(* C34. Failure, timeout and the result of a tier worker                   *)

\* the failure draw of the call op holds
FailureDrawn ==
  op.p_fail >= 100 \/ (op.p_fail > 0 /\ op.u_fail < op.p_fail)

\* C34: a sample is never both failed and timeout; when the failure draw is
\* true it is failed, with the service time as sampled (the timeout is not
\* looked at); otherwise it is timeout exactly when timeout_ms > 0 and the
\* sampled service time exceeds it, and the service time is then timeout_ms;
\* the result of the worker has success iff the sleep was not cancelled and
\* the sample is neither failed nor timeout, and error "cancelled", else
\* "failed", else "timeout", else empty
C34_FailedOrTimeout ==
  op.last = "Sample" =>
    /\ ~(op.sample.failed /\ op.sample.timeout)
    /\ op.sample.failed <=> FailureDrawn
    /\ FailureDrawn => op.sample.service_time_ms = op.service_time_ms
    /\ ~FailureDrawn =>
         /\ op.sample.timeout <=>
              (op.timeout_ms > 0 /\ op.service_time_ms > op.timeout_ms)
         /\ op.sample.timeout => op.sample.service_time_ms = op.timeout_ms
         /\ ~op.sample.timeout => op.sample.service_time_ms = op.service_time_ms
    /\ op.outcome.success <=>
         (~op.cancelled /\ ~op.sample.failed /\ ~op.sample.timeout)
    /\ op.outcome.error =
         IF op.cancelled THEN "cancelled"
         ELSE IF op.sample.failed THEN "failed"
         ELSE IF op.sample.timeout THEN "timeout"
         ELSE ""

\* a failure was drawn for a service time above the timeout
C34_Witness ==
  /\ op.last = "Sample"
  /\ FailureDrawn
  /\ op.timeout_ms > 0
  /\ op.service_time_ms > op.timeout_ms
  /\ ~op.cancelled
  /\ op.outcome.error = "failed"

-----------------------------------------------------------------------------
(* C35. The tail multiplier                                                *)

\* the Bernoulli(tail_prob) draw of the call op holds
TailDrawn ==
  op.tail_prob >= 100 \/ (op.tail_prob > 0 /\ op.u_tail < op.tail_prob)

\* C35: the sampler multiplies the raw service time by tail_multiplier only
\* when the Bernoulli(tail_prob) draw is true; with tail_prob = 0 the raw time
\* is returned (raised to 1 ms at least) whatever tail_multiplier is
C35_TailOnlyOnDraw ==
  op.last \in {"SampleServiceTime", "SampleLocalServiceTime"} /\ ~TailDrawn =>
    op.service_time_ms = Max(1, op.raw)

-----------------------------------------------------------------------------
(* C36. One result for every attempt and task a worker took                *)

\* the attempts or tasks whose turn the workers of t end in this step
Finishing(t) == tworkers[t] \ tworkers'[t]

\* the step pushes one result, the result of a
PushesResultOf(a, tier) ==
  /\ Len(result_queue') = Len(result_queue) + 1
  /\ SubSeq(result_queue', 1, Len(result_queue)) = result_queue
  /\ result_queue'[Len(result_queue')].wf = a.wf
  /\ result_queue'[Len(result_queue')].node = a.node
  /\ result_queue'[Len(result_queue')].tier = tier

\* what a worker holds or has pushed and Run has not taken yet, by attempt
PendingOf(w, nid, k, t) ==
  Cardinality({a \in tworkers[t] : a.wf = w /\ a.node = nid /\ a.attempt = k})
  + Cardinality({i \in DOMAIN result_queue :
                   /\ result_queue[i].wf = w
                   /\ result_queue[i].node = nid
                   /\ result_queue[i].attempt = k
                   /\ result_queue[i].tier = t})

\* C36: while the result queue is not shut down, the turn of a tier worker on
\* an attempt and the turn of a local worker on a task end with exactly one
\* result pushed, the result of that attempt or task, whatever the outcome;
\* the turn of a tier worker takes one from in_flight, which counts the
\* attempts the workers of the tier hold; results come from nowhere else,
\* and no attempt has two results
C36_OneResultPerAttempt ==
  /\ [][\A t \in TierIds : \A a \in Finishing(t) :
          /\ tiers'[t].in_flight = tiers[t].in_flight - 1
          /\ ~ctl.queues_shutdown =>
               /\ PushesResultOf(a, t)
               /\ result_queue'[Len(result_queue')].attempt = a.attempt]_vars
  /\ [][\A task \in Finishing(0) :
          ~ctl.queues_shutdown => PushesResultOf(task, 0)]_vars
  /\ [][Len(result_queue') > Len(result_queue) =>
          Cardinality(UNION {Finishing(t) : t \in DOMAIN tworkers}) = 1]_vars
  /\ [](\A t \in TierIds : tiers[t].in_flight = Cardinality(tworkers[t]))
  /\ [](\A f \in DOMAIN flags : \A t \in TierIds :
           PendingOf(f[1], f[2], f[3], t) <= 1)

\* results of every outcome wait in the result queue, before any shutdown: a
\* cancelled one, a failed one or a timeout, and the success of a local task
C36_Witness ==
  /\ ~ctl.queues_shutdown
  /\ \E i, j, k \in DOMAIN result_queue :
       /\ result_queue[i].error = "cancelled"
       /\ result_queue[j].error \in {"failed", "timeout"}
       /\ result_queue[k].success

-----------------------------------------------------------------------------
(* Nodes of a done workflow                                                *)

\* C37: whenever a workflow is done, every one of its nodes is in a terminal
\* state: none is left WaitingDeps, Runnable, Queued or Running, whatever the
\* workload (subqueries = 0 included) and the order of the results.
C37_DoneAllTerminal ==
  \A w \in DOMAIN wfs :
    wfs[w].done =>
      \A i \in DOMAIN wfs[w].nodes : IsTerminal(wfs[w].nodes[i].state)

-----------------------------------------------------------------------------
(* A done workflow is left alone                                           *)

\* the entries of queue q that belong to workflow w
EntriesOf(q, w) == Cardinality({k \in DOMAIN q : q[k].wf = w})

\* the cancellation flags allocated for the attempts of workflow w
FlagsOfWorkflow(fl, w) == {f \in DOMAIN fl : f[1] = w}

\* the workflows that become done in this step
BecomeDone == {w \in DOMAIN wfs : ~wfs[w].done /\ wfs'[w].done}

\* C38: once a workflow is done no step changes anything of it: its node
\* states, nodes and edges stay as they are, no attempt, hedge or local task
\* is enqueued for it, no cancellation flag is allocated for it, its cost stays
\* fixed, and no second WorkflowMetrics record (makespan, cost) is pushed for it:
\* workflows_done grows only by the workflows that become done in the step
C38_DoneWorkflowFrozen ==
  /\ [][\A w \in DOMAIN wfs :
          wfs[w].done =>
            /\ wfs'[w] = wfs[w]
            /\ ctl'.workflow_cost[w] = ctl.workflow_cost[w]
            /\ \A t \in TierIds :
                 EntriesOf(tiers'[t].queue, w) <= EntriesOf(tiers[t].queue, w)
            /\ EntriesOf(cpu_queue', w) <= EntriesOf(cpu_queue, w)
            /\ EntriesOf(io_queue', w) <= EntriesOf(io_queue, w)
            /\ FlagsOfWorkflow(flags', w) = FlagsOfWorkflow(flags, w)
            /\ {k \in ctl'.attempt_start_time : k[1] = w}
                  \subseteq {k \in ctl.attempt_start_time : k[1] = w}]_vars
  /\ [][ctl'.workflows_done = ctl.workflows_done + Cardinality(BecomeDone)]_vars

\* under max_in_flight_global = 1 a workflow is done with a node left Runnable
\* while a node of the other workflow is Queued: that node was dispatched by
\* a scheduler pass that ran after the first workflow became done
C38_Witness ==
  /\ cfg.max_in_flight_global = 1
  /\ ~ctl.shutdown
  /\ \E w, v \in DOMAIN wfs :
       /\ wfs[w].done
       /\ \E i \in DOMAIN wfs[w].nodes : wfs[w].nodes[i].state = "Runnable"
       /\ ~wfs[v].done
       /\ \E i \in DOMAIN wfs[v].nodes : wfs[v].nodes[i].state = "Queued"

-----------------------------------------------------------------------------
(* Dispatched nodes and their attempts                                     *)

\* node nid of workflow w has an attempt or a local task in a tier queue or a
\* local queue, in the hands of a worker, or as a result in the result queue
HasPending(w, nid) ==
  \/ \E t \in TierIds : \E k \in DOMAIN tiers[t].queue :
        tiers[t].queue[k].wf = w /\ tiers[t].queue[k].node = nid
  \/ \E t \in DOMAIN tworkers : \E a \in tworkers[t] : a.wf = w /\ a.node = nid
  \/ \E k \in DOMAIN cpu_queue : cpu_queue[k].wf = w /\ cpu_queue[k].node = nid
  \/ \E k \in DOMAIN io_queue : io_queue[k].wf = w /\ io_queue[k].node = nid
  \/ \E k \in DOMAIN result_queue :
        result_queue[k].wf = w /\ result_queue[k].node = nid

\* before shutdown every Queued node of a workflow not done has an attempt,
\* a task or a result pending
QueuedHavePending ==
  ~ctl.shutdown =>
    \A w \in DOMAIN wfs :
      ~wfs[w].done =>
        \A i \in DOMAIN wfs[w].nodes :
          wfs[w].nodes[i].state = "Queued" => HasPending(w, i)

\* when ProcessResults takes the result of a node that is Queued, the node
\* becomes terminal
QueuedResultSettles ==
  (/\ result_queue # <<>>
   /\ result_queue' = Tail(result_queue)
   /\ wfs[Head(result_queue).wf].nodes[Head(result_queue).node].state = "Queued")
  => IsTerminal(wfs'[Head(result_queue).wf].nodes[Head(result_queue).node].state)

\* C39: no dispatched node is orphaned: before shutdown every Queued node of a
\* workflow not done has an attempt or local task pending in a queue, held by
\* a worker, or waiting as a result, and that result, once taken, brings the
\* node to a terminal state
C39_NoOrphan ==
  /\ []QueuedHavePending
  /\ [][QueuedResultSettles]_vars

-----------------------------------------------------------------------------
(* SpecReplay: a client of one Workflow object that calls MarkQueued,      *)
(* MarkSucceeded and MarkFailed in any order and may call them again on a  *)
(* node that is already in the state asked for.                            *)

MaxReplayPlans == 3    \* no call that would leave more Plan nodes than this

\* Workflow::MarkSucceeded called by the client
ReplayMarkSucceeded ==
  \E nid \in NodeIds :
    /\ nid \in DOMAIN wfs[1].nodes =>
         PlanCount(MarkSucceeded(wfs[1], nid)) <= MaxReplayPlans
    /\ CallMark(nid, "Succeeded", MarkSucceeded(wfs[1], nid))

NextReplay ==
  \/ CallMarkQueued
  \/ ReplayMarkSucceeded
  \/ CallMarkFailed

SpecReplay == InitWF /\ [][NextReplay]_vars

-----------------------------------------------------------------------------
(* One Plan node per iteration                                             *)

\* the Plan nodes of iteration k in workflow w
PlansOfIter(w, k) ==
  {i \in DOMAIN w.nodes : w.nodes[i].type = "Plan" /\ w.nodes[i].iter = k}

\* C40: after any sequence of Workflow operations, a repeated MarkSucceeded
\* on a Succeeded DecideNext node included, a workflow holds at most one Plan
\* node per iteration
C40_OnePlanPerIteration ==
  \A w \in DOMAIN wfs : \A i \in DOMAIN wfs[w].nodes :
    Cardinality(PlansOfIter(wfs[w], wfs[w].nodes[i].iter)) <= 1
====
